---- MODULE Spec2Model ----
(***************************************************************************)
(* wiz-lights-rs: the retrying command transport of a Light                *)
(* (src/src/light.rs, Light::send_command / Light::send_udp, with the      *)
(* MessageHistory of src/src/history.rs it records into), the push         *)
(* listener (src/src/push.rs, PushManager), the discovery scanner          *)
(* (src/src/discovery.rs, discover_bulbs) and the lights of a Room         *)
(* (src/src/room.rs).                                                      *)
(*                                                                         *)
(* The specifications share the module: SpecCmd steps one Light through    *)
(* send_command calls, SpecSet through Light::set, SpecHist steps a        *)
(* MessageHistory and SpecLog a Light whose history is also cleared;       *)
(* SpecPush steps one PushManager, its API callers and the receive loops   *)
(* it spawns, SpecSeq is SpecPush with a client that awaits each start /   *)
(* stop / register_bulb before the next, SpecPushFair adds the scheduling  *)
(* of the runtime and SpecStopFair is a manager that is stopped while      *)
(* its loop serves datagrams; SpecDisc steps one discover_bulbs call and   *)
(* SpecDiscFair lets its clock advance; SpecRoom adds, updates and         *)
(* removes the lights of one Room.  The variables of the other subsystems  *)
(* stay at their initial values.                                           *)
(***************************************************************************)
EXTENDS Integers, Sequences, FiniteSets, TLC

\* ------------------------------------------------------------------ bounds
\* send_command calls made on the Light in one behaviour
MaxCalls == 1
\* send_command calls made on a Light whose history is followed
MaxLogCalls == 2
\* distinct result payloads a bulb may answer with
NumResults == 2

\* --------------------------------------------------- constants of light.rs
PORT == 38899
TIMEOUT_MS == 1000
MAX_RETRIES == 3
RETRY_DELAYS_MS == <<750, 1500, 3000>>
DEFAULT_MAX_ENTRIES == 100

\* Option<T>: None is the empty tuple, Some(x) the one-element tuple
None == <<>>
Some(x) == <<x>>

\* a JSON field that is missing (or is not a string where one is read)
Absent == "absent"

\* the smaller of two numbers (usize::min)
Min(a, b) == IF a < b THEN a ELSE b

\* ------------------------------------------------------- command transport
VARIABLES
    sc_pc,          \* where the Light is: "idle", inside send_udp, "sleep", "returned"
    sc_msg,         \* the command of the current send_command call
    attempt,        \* the loop variable of `for attempt in 0..=MAX_RETRIES`
    last_error,     \* send_command's local `last_error`
    sc_result,      \* what the last send_command call returned
    sock,           \* number of UDP sockets the call holds open
    history,        \* Light.history: MessageHistory
    sc_calls,       \* send_command calls started so far
    sc_trace,       \* events of the current call, in order (observation only)
    sock_id,        \* the socket send_udp holds: Option<<call, attempt that bound it>>
    requests,       \* the commands sent: the socket each left through and the
                    \* attempt that sent it
    sc_rcvd,        \* the request answered by the response the call returned:
                    \* Option (observation only)
    status,         \* Light.status: Option<LightStatus>, as the set of
                    \* attributes it knows
    set_call,       \* the latest Light::set call: Option of its payload and
                    \* its result (None while it runs)
    mh,             \* a MessageHistory made by with_max_entries: Option
    mh_log          \* the entries recorded in mh, in order (observation only)

\* the fields of the Light beside its transport, and the history of its own
lightVars == <<status, set_call, mh, mh_log>>

cmdVars == <<sc_pc, sc_msg, attempt, last_error, sc_result, sock, history,
             sc_calls, sc_trace, sock_id, requests, sc_rcvd, lightVars>>

\* ------------------------------------------- push listener: the state
VARIABLES
    running,            \* PushManager.running (AtomicBool)
    subscriptions,      \* PushManager.subscriptions: set of <<key, callback>>
    subs_lock,          \* holder of the subscriptions mutex: 0, or a loop id
    discovery_callback, \* PushManager.discovery_callback: Option
    disc_lock,          \* holder of the discovery_callback mutex: 0, or a loop id
    listener_task,      \* PushManager.listener_task: Option<JoinHandle> (loop id)
    task_lock,          \* holder of the listener_task mutex: 0, or a caller
    last_push,          \* PushManager.last_push: Option<Instant>
    pm_last_error,      \* PushManager.last_error: Option<String>
    register_msg,       \* PushManager.register_msg: Option<Value>
    dropped,            \* the manager has been torn down (Drop has run)
    port,               \* owner of UDP port LISTEN_PORT: None, or Some(socket owner)
    callers,            \* the tasks inside start / stop / register_bulb
    loops,              \* the receive loops spawned by start, by spawn order
    nloops,             \* receive loops spawned so far
    napi,               \* API calls begun so far
    diag,               \* what the latest diagnostics call returned: Option
    nrecv,              \* datagrams received so far; also the clock of Instant::now()
    expected,           \* per key: the callback the API calls so far bind to it
                        \* (observation only: "never", "unsub" or the callback)
    sent                \* datagrams register_bulb has sent (the network), in order

pushVars == <<running, subscriptions, subs_lock, discovery_callback, disc_lock,
              listener_task, task_lock, last_push, pm_last_error, register_msg,
              dropped, port, callers, loops, nloops, napi, diag, nrecv, expected,
              sent>>

\* ------------------------------------------- discovery scanner: the state
VARIABLES
    ds_pc,          \* where discover_bulbs is: "idle", "bind", "set_broadcast",
                    \* "send", "loop", "returned"
    ds_timeout,     \* the argument discovery_timeout, in clock ticks of 250 ms
    ds_elapsed,     \* start.elapsed(), in the same unit
    discovered,     \* the local HashMap `discovered`: sequence of <<key, bulb>>
    ds_probe,       \* the probe datagram on the network: Option
    ds_replies,     \* the datagrams recv_from has returned, in order
    ds_result,      \* what discover_bulbs returned: Option<Result<Vec<..>>>
    ds_sends,       \* the number of datagrams send_to has sent
    ds_errors,      \* the number of receive errors recv_from has returned
    ds_wait         \* the last receive wait: when it started, how long it
                    \* lasted and how it ended

\* ------------------------------------------------------- Room: the state
VARIABLES
    lights,         \* Room.lights: Option<HashMap<Uuid, Light>>, the map a
                    \* set of <<id, [ip, name]>>
    next_uuid,      \* identifiers Uuid::new_v4 has handed out
    room_result     \* what the latest call on the room returned: Option

roomVars == <<lights, next_uuid, room_result>>

discVars == <<ds_pc, ds_timeout, ds_elapsed, discovered, ds_probe, ds_replies,
              ds_result, ds_sends, ds_errors, ds_wait, roomVars>>

\* the method vocabulary carried by the transport (a sample of it)
Methods == {"getPilot", "setPilot"}
Commands == [method : Methods]

\* decoded replies: any JSON value; `method` may be missing
Responses == [method : Methods \cup {Absent}, result : 1 .. NumResults]

\* errors.rs: the errors send_udp can produce
SocketError(action, io) == [type |-> "Socket", action |-> action, io |-> io]
Utf8DecodeError == [type |-> "Utf8Decode", action |-> Absent, io |-> Absent]
JsonLoadError == [type |-> "JsonLoad", action |-> Absent, io |-> Absent]
NoAttribute == [type |-> "NoAttribute", action |-> Absent, io |-> Absent]

\* io errors of recv: the read timeout elapsing, or any other failure
RecvIoErrors == {"TimedOut", "ConnectionRefused"}

AttemptErrors ==
    {SocketError(a, "Other") :
        a \in {"bind", "set_write_timeout", "set_read_timeout", "connect", "send"}}
    \cup {SocketError("receive", io) : io \in RecvIoErrors}
    \cup {Utf8DecodeError, JsonLoadError}

\* Display for Error (errors.rs): the text record_error is given
to_string(e) ==
    CASE e.type = "Socket" -> <<"socket", e.action, "error:", e.io>>
      [] e.type = "Utf8Decode" -> <<"utf8 decoding error:">>
      [] e.type = "JsonLoad" -> <<"failed to load json:">>
      [] OTHER -> <<"invalid payload; no attributes set">>

\* MessageHistory::new
MessageHistory_new ==
    [history |-> [t \in {"Send", "Receive", "Push"} |-> {}],
     last_error |-> None,
     entries |-> <<>>,
     max_entries |-> DEFAULT_MAX_ENTRIES]

\* record that refuses the new entry once the history is full
record_keep_oldest(h, msg_type, message) ==
    IF message.method = Absent THEN h
    ELSE LET pushed == Append(h.entries,
                              [msg_type |-> msg_type, method |-> message.method,
                               message |-> message])
         IN  [h EXCEPT
                !.history[msg_type] = @ \cup {message.method},
                !.entries = IF Len(pushed) > h.max_entries THEN h.entries
                            ELSE pushed]

\* MessageHistory::record: a message without a string `method` is ignored;
\* otherwise the per-type map gets the method, the entry is appended and the
\* oldest entry is removed once the length exceeds max_entries
record(h, msg_type, message) ==
    IF message.method = Absent THEN h
    ELSE LET pushed == Append(h.entries,
                              [msg_type |-> msg_type, method |-> message.method,
                               message |-> message])
         IN  [h EXCEPT
                !.history[msg_type] = @ \cup {message.method},
                !.entries = IF Len(pushed) > h.max_entries THEN Tail(pushed)
                            ELSE pushed]

\* MessageHistory::record_error
record_error(h, error) == [h EXCEPT !.last_error = Some(error)]

\* Result<Value, Error>
Ok(v) == [ok |-> TRUE, val |-> Some(v), err |-> None]
Err(e) == [ok |-> FALSE, val |-> None, err |-> Some(e)]

\* an event of a call: attempt n started, attempt failed with e, n ms were
\* slept, attempt succeeded with r
Ev(ev, n, e, r) == [ev |-> ev, n |-> n, e |-> e, r |-> r]

\* send_command, lines 453-460: record the sent message, encode it (encoding
\* a serde_json::Value cannot fail), clear last_error and enter the loop.
\* What the caller keeps of the call (set_call) is left to the caller.
send_command_enter(msg) ==
    /\ sc_pc \in {"idle", "returned"}
    /\ sc_calls < MaxLogCalls
    /\ sc_calls' = sc_calls + 1
    /\ sc_msg' = Some(msg)
    /\ history' = record(history, "Send", msg)
    /\ last_error' = None
    /\ attempt' = 0
    /\ sc_result' = None
    /\ sc_rcvd' = None
    /\ sc_trace' = <<Ev("attempt", 0, None, None)>>
    /\ sc_pc' = "bind"
    /\ UNCHANGED <<sock, sock_id, requests, status, mh, mh_log>>
    /\ UNCHANGED <<pushVars, discVars>>

\* send_command called by a method of Light other than set
send_command_begin(msg) ==
    /\ send_command_enter(msg)
    /\ UNCHANGED set_call

\* retry_delay with the index stuck at the first entry of the schedule
retry_delay_first(a) == RETRY_DELAYS_MS[1]

\* the delay slept after failed attempt number a (lines 476-477)
retry_delay(a) == RETRY_DELAYS_MS[Min(a, Len(RETRY_DELAYS_MS) - 1) + 1]

\* after_failure with the attempt budget one short
after_failure_short(a) == IF a + 1 < MAX_RETRIES THEN "sleep" ELSE "returned"

\* where the loop goes after a failed attempt (lines 475-483): sleep when
\* attempts remain, otherwise fall out of the loop and return the last error
after_failure(a) == IF a < MAX_RETRIES THEN "sleep" ELSE "returned"

\* what send_command returns once the loop is exhausted (line 483)
exhausted_result(le) == Some(Err(IF le = None THEN NoAttribute ELSE le[1]))

\* keep_error that keeps the first error instead of the latest
keep_error_first(old, e) == IF old = None THEN Some(e) ELSE old

\* line 474: last_error = Some(e)
keep_error(old, e) == Some(e)

\* send_command, the Err(e) arm (lines 469-479) and, when no attempt is
\* left, the return of line 483.  send_udp has returned, so its socket is
\* dropped.
attempt_failed(e) ==
    /\ history' = record_error(history, to_string(e))
    /\ last_error' = keep_error(last_error, e)
    /\ sock' = 0
    /\ sock_id' = None
    /\ sc_trace' = Append(sc_trace, Ev("err", attempt, Some(e), None))
    /\ sc_pc' = after_failure(attempt)
    /\ sc_result' = IF sc_pc' = "returned" THEN exhausted_result(last_error')
                    ELSE sc_result
    /\ UNCHANGED <<sc_msg, attempt, sc_calls, requests, sc_rcvd>>
    /\ UNCHANGED <<lightVars, pushVars, discVars>>

\* attempt_succeeded that clears the error kept by the history
attempt_succeeded_clearing(response) ==
    /\ \E q \in {x \in requests : x.sock = sock_id[1]} : sc_rcvd' = Some(q)
    /\ history' = [record(history, "Receive", response) EXCEPT !.last_error = None]
    /\ sc_result' = Some(Ok(response))
    /\ sock' = 0
    /\ sock_id' = None
    /\ sc_trace' = Append(sc_trace, Ev("ok", attempt, None, Some(response)))
    /\ sc_pc' = "returned"
    /\ UNCHANGED <<sc_msg, attempt, last_error, sc_calls, requests>>
    /\ UNCHANGED <<lightVars, pushVars, discVars>>

\* send_command, the Ok(response) arm (lines 462-468): send_udp returns the
\* datagram its socket received, which answers a request sent from that
\* socket
attempt_succeeded(response) ==
    /\ \E q \in {x \in requests : x.sock = sock_id[1]} : sc_rcvd' = Some(q)
    /\ history' = record(history, "Receive", response)
    /\ sc_result' = Some(Ok(response))
    /\ sock' = 0
    /\ sock_id' = None
    /\ sc_trace' = Append(sc_trace, Ev("ok", attempt, None, Some(response)))
    /\ sc_pc' = "returned"
    /\ UNCHANGED <<sc_msg, attempt, last_error, sc_calls, requests>>
    /\ UNCHANGED <<lightVars, pushVars, discVars>>

\* fresh_socket that hands every attempt the socket of the first attempt
reused_socket(call, a) == <<call, 0>>

\* line 487: every call of send_udp binds a socket of its own, which no
\* earlier attempt has used
fresh_socket(call, a) == <<call, a>>

\* a step of send_udp that either fails with `e` or moves on to `next`;
\* `opens` sockets are opened by it, and when `sends` the command leaves
\* through the socket
udp_step(at, e, next, opens, sends) ==
    /\ sc_pc = at
    /\ \/ attempt_failed(e)
       \/ /\ sc_pc' = next
          /\ sock' = sock + opens
          /\ sock_id' = IF opens = 1 THEN Some(fresh_socket(sc_calls, attempt))
                        ELSE sock_id
          /\ requests' = IF sends
                         THEN requests \cup {[sock |-> sock_id[1],
                                              for |-> <<sc_calls, attempt>>]}
                         ELSE requests
          /\ UNCHANGED <<sc_msg, attempt, last_error, sc_result, history,
                         sc_calls, sc_trace, sc_rcvd>>
          /\ UNCHANGED <<lightVars, pushVars, discVars>>

\* send_udp line 487: UdpSocket::bind("0.0.0.0:0")
udp_bind ==
    udp_step("bind", SocketError("bind", "Other"), "set_write_timeout", 1, FALSE)
\* send_udp lines 490-492
udp_set_write_timeout ==
    udp_step("set_write_timeout", SocketError("set_write_timeout", "Other"),
             "set_read_timeout", 0, FALSE)
\* send_udp lines 493-495
udp_set_read_timeout ==
    udp_step("set_read_timeout", SocketError("set_read_timeout", "Other"),
             "connect", 0, FALSE)
\* send_udp lines 497-499
udp_connect ==
    udp_step("connect", SocketError("connect", "Other"), "send", 0, FALSE)
\* send_udp lines 500-502
udp_send == udp_step("send", SocketError("send", "Other"), "recv", 0, TRUE)

\* udp_recv in which a reply that is not JSON ends the call at once
udp_recv_fatal_decode ==
    /\ sc_pc = "recv"
    /\ \/ \E io \in RecvIoErrors : attempt_failed(SocketError("receive", io))
       \/ attempt_failed(Utf8DecodeError)
       \/ /\ history' = record_error(history, to_string(JsonLoadError))
          /\ last_error' = Some(JsonLoadError)
          /\ sock' = 0
          /\ sock_id' = None
          /\ sc_trace' = Append(sc_trace, Ev("err", attempt, Some(JsonLoadError), None))
          /\ sc_pc' = "returned"
          /\ sc_result' = Some(Err(JsonLoadError))
          /\ UNCHANGED <<sc_msg, attempt, sc_calls, requests, sc_rcvd>>
          /\ UNCHANGED <<lightVars, pushVars, discVars>>
       \/ \E r \in Responses : attempt_succeeded(r)

\* send_udp lines 504-510: wait up to TIMEOUT_MS for one datagram; the wait
\* fails (timeout or socket error), or the datagram is not UTF-8, or not
\* JSON, or decodes to a value
udp_recv ==
    /\ sc_pc = "recv"
    /\ \/ \E io \in RecvIoErrors : attempt_failed(SocketError("receive", io))
       \/ attempt_failed(Utf8DecodeError)
       \/ attempt_failed(JsonLoadError)
       \/ \E r \in Responses : attempt_succeeded(r)

\* send_command lines 476-477, then the next iteration of the loop
backoff_sleep ==
    /\ sc_pc = "sleep"
    /\ sc_trace' = Append(Append(sc_trace,
                                 Ev("sleep", retry_delay(attempt), None, None)),
                          Ev("attempt", attempt + 1, None, None))
    /\ attempt' = attempt + 1
    /\ sc_pc' = "bind"
    /\ UNCHANGED <<sc_msg, last_error, sc_result, sock, history, sc_calls,
                   sock_id, requests, sc_rcvd>>
    /\ UNCHANGED <<lightVars, pushVars, discVars>>

NextCmd ==
    \/ \E m \in Commands : sc_calls < MaxCalls /\ send_command_begin(m)
    \/ udp_bind
    \/ udp_set_write_timeout
    \/ udp_set_read_timeout
    \/ udp_connect
    \/ udp_send
    \/ udp_recv
    \/ backoff_sleep

\* -------------------------------------------------------------- Light::set
\* Light.ip
LightIp == "192.168.1.50"

\* payloads, each given by the attributes that are Some: the empty one,
\* speed alone, a colour with a channel missing, brightness, colour and speed
Payloads ==
    {{}, {"speed"}, {"red", "green"}, {"dimming"},
     {"red", "green", "blue", "speed"}}

\* Payload::is_valid (payload.rs lines 97-104)
is_valid(payload) ==
    \/ "scene" \in payload
    \/ "dimming" \in payload
    \/ "temp" \in payload
    \/ ("red" \in payload /\ "green" \in payload /\ "blue" \in payload)
    \/ "cool" \in payload
    \/ "warm" \in payload

\* set_begin without the validity check of lines 179-181
set_begin_unchecked(payload) ==
    /\ IF set_call = None THEN TRUE ELSE set_call[1].result # None
    /\ send_command_enter([method |-> "setPilot", params |-> payload])
    /\ set_call' = Some([payload |-> payload, result |-> None])

\* Light::set, lines 178-187: a payload that is not valid returns
\* Err(NoAttribute) at once; otherwise the payload is encoded (which cannot
\* fail for this struct) and send_command is entered with the setPilot
\* envelope.  set borrows the Light, so it starts when no call is running.
set_begin(payload) ==
    /\ IF set_call = None THEN TRUE ELSE set_call[1].result # None
    /\ IF ~is_valid(payload)
       THEN /\ sc_pc \in {"idle", "returned"}
            /\ set_call' = Some([payload |-> payload,
                                 result |-> Some(Err(NoAttribute))])
            /\ UNCHANGED <<sc_pc, sc_msg, attempt, last_error, sc_result, sock,
                           history, sc_calls, sc_trace, sock_id, requests,
                           sc_rcvd, status, mh, mh_log>>
            /\ UNCHANGED <<pushVars, discVars>>
       ELSE /\ send_command_enter([method |-> "setPilot", params |-> payload])
            /\ set_call' = Some([payload |-> payload, result |-> None])

\* Light::set, lines 184-190: send_command has returned; its error is passed
\* on by `?`, its response is dropped and
\* Ok(LightingResponse::payload(self.ip, payload)) is returned
set_return ==
    /\ IF set_call = None THEN FALSE ELSE set_call[1].result = None
    /\ sc_pc = "returned"
    /\ set_call' = Some([set_call[1] EXCEPT !.result =
            Some(IF sc_result[1].ok
                 THEN Ok([ip |-> LightIp, payload |-> set_call[1].payload])
                 ELSE sc_result[1])])
    /\ UNCHANGED <<sc_pc, sc_msg, attempt, last_error, sc_result, sock, history,
                   sc_calls, sc_trace, sock_id, requests, sc_rcvd, status, mh,
                   mh_log>>
    /\ UNCHANGED <<pushVars, discVars>>

\* Light::process_reply (lines 391-402) with a payload response, and
\* update_status_from_payload (lines 437-443): a response of another address
\* is refused, otherwise the attributes of the payload are taken over into
\* the cached status.  It needs `&mut self`, so no call is running.
process_reply(resp) ==
    /\ sc_pc \in {"idle", "returned"}
    /\ IF set_call = None THEN TRUE ELSE set_call[1].result # None
    /\ status' = IF resp.ip # LightIp THEN status
                 ELSE Some(IF status = None THEN resp.payload
                           ELSE status[1] \cup resp.payload)
    /\ UNCHANGED <<sc_pc, sc_msg, attempt, last_error, sc_result, sock, history,
                   sc_calls, sc_trace, sock_id, requests, sc_rcvd, set_call, mh,
                   mh_log>>
    /\ UNCHANGED <<pushVars, discVars>>

\* a Light driven through set and process_reply
NextSet ==
    \/ \E p \in Payloads : (is_valid(p) => sc_calls < MaxCalls) /\ set_begin(p)
    \/ udp_bind
    \/ udp_set_write_timeout
    \/ udp_set_read_timeout
    \/ udp_connect
    \/ udp_send
    \/ udp_recv
    \/ backoff_sleep
    \/ set_return
    \/ \E ip \in {LightIp, "192.168.1.51"}, p \in {x \in Payloads : is_valid(x)} :
          process_reply([ip |-> ip, payload |-> p])

\* ------------------------------------------- Light: the history of calls
\* MessageHistory::clear (history.rs lines 108-112)
clear(h) ==
    [h EXCEPT !.history = [t \in {"Send", "Receive", "Push"} |-> {}],
              !.entries = <<>>,
              !.last_error = None]

\* Light::clear_history (light.rs lines 94-96).  Light holds a RefCell and
\* send_command blocks its caller, so the call falls between two calls.
clear_history ==
    /\ sc_pc \in {"idle", "returned"}
    /\ history' = clear(history)
    /\ UNCHANGED <<sc_pc, sc_msg, attempt, last_error, sc_result, sock, sc_calls,
                   sc_trace, sock_id, requests, sc_rcvd>>
    /\ UNCHANGED <<lightVars, pushVars, discVars>>

\* a Light that is sent getPilot several times and whose history is cleared
NextLog ==
    \/ send_command_begin([method |-> "getPilot"])
    \/ udp_bind
    \/ udp_set_write_timeout
    \/ udp_set_read_timeout
    \/ udp_connect
    \/ udp_send
    \/ udp_recv
    \/ backoff_sleep
    \/ clear_history

\* ---------------------------------------------------------- MessageHistory
\* bounds of the history model
\* messages recorded in one behaviour
MaxRecords == 4
\* the largest max_entries a history is created with
MaxEntries == 2

\* MessageHistory::with_max_entries (history.rs lines 60-65)
with_max_entries(max_entries) ==
    [MessageHistory_new EXCEPT !.max_entries = max_entries]

\* a history of its own is created with with_max_entries(n)
history_create(n) ==
    /\ mh = None
    /\ mh' = Some(with_max_entries(n))
    /\ mh_log' = <<>>
    /\ UNCHANGED <<sc_pc, sc_msg, attempt, last_error, sc_result, sock, history,
                   sc_calls, sc_trace, sock_id, requests, sc_rcvd, status,
                   set_call>>
    /\ UNCHANGED <<pushVars, discVars>>

\* MessageHistory::record is called on that history
history_record(msg_type, message) ==
    /\ mh # None
    /\ Len(mh_log) < MaxRecords
    /\ mh' = Some(record(mh[1], msg_type, message))
    /\ mh_log' = IF message.method = Absent THEN mh_log
                 ELSE Append(mh_log, [msg_type |-> msg_type,
                                      method |-> message.method,
                                      message |-> message])
    /\ UNCHANGED <<sc_pc, sc_msg, attempt, last_error, sc_result, sock, history,
                   sc_calls, sc_trace, sock_id, requests, sc_rcvd, status,
                   set_call>>
    /\ UNCHANGED <<pushVars, discVars>>

NextHist ==
    \/ \E n \in 0 .. MaxEntries : history_create(n)
    \/ \E t \in {"Send", "Receive", "Push"}, m \in Responses : history_record(t, m)


\* ------------------------------------------------------------ push listener
\* bounds of the push model
\* calls of the PushManager API made in one behaviour
MaxApiCalls == 4
\* datagrams the receive loops take off the socket in one behaviour
MaxDatagrams == 2
\* the same two bounds for behaviours in which calls race with each other
MaxRacingCalls == 3
MaxRacingDatagrams == 1
\* tasks that may be inside start, stop or diagnostics at the same time
NumCallers == 2

\* constants of push.rs
LISTEN_PORT == 38900
RESPOND_PORT == 38899

Callers == 1 .. NumCallers
LoopIds == 1 .. MaxApiCalls

\* identifier strings, as sequences of characters
Idents == {<<"a", "b">>, <<"A", "B">>, <<"c", "d">>}

\* char::to_uppercase on the characters of the identifiers
UpperChar(c) ==
    CASE c = "a" -> "A"
      [] c = "b" -> "B"
      [] c = "c" -> "C"
      [] c = "d" -> "D"
      [] OTHER -> c

\* str::to_uppercase
to_uppercase(str) == [i \in DOMAIN str |-> UpperChar(str[i])]

Keys == {to_uppercase(i) : i \in Idents}

\* callbacks the application may register
StateCallbacks == {"f", "g"}
DiscoveryCallbacks == {"d1", "d2"}

\* bulb addresses handed to register_bulb
BulbIps == {"192.168.1.50", "192.168.1.51"}
\* how the socket calls of register_bulb can end
SendOutcomes == {"sent", "bind failed", "send timeout", "send failed"}
\* local addresses handed to start
LocalIps == {"192.168.1.100", "192.168.1.101"}
\* clock readings generate_mac may see: the nanoseconds since the epoch, as
\* bytes from the least significant one (the value has more than six)
ClockReadings == {<<255, 0, 18, 52, 86, 171, 1>>, <<10, 205, 239, 1, 35, 69, 2>>}
SourceIp == "192.168.1.7"

\* a push message body that is a JSON object: `method` and `params` may be
\* missing, and `params.mac` may be missing or not a string
PushMsg(method, params) == [method |-> method, params |-> params]
Params(mac) == [mac |-> mac, state |-> TRUE]

\* a datagram: its bytes (not UTF-8, the text "test", text that is not JSON,
\* or a JSON object) and the family of its source address
Datagram(body, msg, v4) == [body |-> body, msg |-> msg, v4 |-> v4]

NoMsg == PushMsg(Absent, None)

\* a JSON datagram from an IPv4 source whose params.mac is the string i
Push(method, i) == Datagram("json", PushMsg(method, Some(Params(Some(i)))), TRUE)

\* the datagrams the network may deliver: noise, state updates and first
\* beats for every identifier, the same from an IPv6 source, messages
\* without params or without a string params.mac, and other methods
Datagrams ==
    {Datagram(b, NoMsg, TRUE) : b \in {"nonutf8", "test", "junk"}}
    \cup {Push("syncPilot", i) : i \in Idents}
    \cup {Push("firstBeat", i) : i \in {<<"a", "b">>, <<"c", "d">>}}
    \cup {Datagram("json", PushMsg(m, Some(Params(Some(<<"a", "b">>)))), FALSE) :
            m \in {"syncPilot", "firstBeat"}}
    \cup {Datagram("json", PushMsg("syncPilot", p), TRUE) :
            p \in {None, Some(Params(None))}}
    \cup {Push("getPilot", <<"a", "b">>), Push(Absent, <<"a", "b">>)}

\* String::from_utf8 (line 185)
from_utf8(d) == IF d.body = "nonutf8" THEN None ELSE Some(d.body)

\* serde_json::from_str (line 192): "test" and other non-JSON text fail
from_str(d) == IF d.body = "json" THEN Some(d.msg) ELSE None

\* line 195: msg.get("method").and_then(as_str)
msg_method(msg) == msg.method

\* push_mac without the normalisation to uppercase
push_mac_raw(msg) ==
    IF msg.params = None THEN None ELSE msg.params[1].mac

\* lines 196-200: msg.get("params").and_then(get("mac")).and_then(as_str)
\* .map(to_uppercase)
push_mac(msg) ==
    IF msg.params = None \/ msg.params[1].mac = None THEN None
    ELSE Some(to_uppercase(msg.params[1].mac[1]))

\* line 213: msg.get("params").cloned().unwrap_or(Value::Null)
msg_params(msg) == IF msg.params = None THEN "null" ELSE msg.params[1]

\* classify_skip_test: the sentinel is not recognised
classify_no_sentinel(d) ==
    IF from_utf8(d) = None THEN [to |-> "check", json_tried |-> FALSE]
    ELSE IF from_str(d) = None THEN [to |-> "check", json_tried |-> TRUE]
    ELSE IF ~d.v4 THEN [to |-> "check", json_tried |-> TRUE]
    ELSE IF msg_method(d.msg) = "syncPilot" /\ push_mac(d.msg) # None
         THEN [to |-> "sync", json_tried |-> TRUE]
    ELSE IF msg_method(d.msg) = "firstBeat" /\ push_mac(d.msg) # None
         THEN [to |-> "first", json_tried |-> TRUE]
    ELSE [to |-> "check", json_tried |-> TRUE]

\* classify that does not look at the family of the source address
classify_any_source(d) ==
    IF from_utf8(d) = None THEN [to |-> "check", json_tried |-> FALSE]
    ELSE IF from_utf8(d) = Some("test") THEN [to |-> "check", json_tried |-> FALSE]
    ELSE IF from_str(d) = None THEN [to |-> "check", json_tried |-> TRUE]
    ELSE IF msg_method(d.msg) = "syncPilot" /\ push_mac(d.msg) # None
         THEN [to |-> "sync", json_tried |-> TRUE]
    ELSE IF msg_method(d.msg) = "firstBeat" /\ push_mac(d.msg) # None
         THEN [to |-> "first", json_tried |-> TRUE]
    ELSE [to |-> "check", json_tried |-> TRUE]

\* lines 185-207 and 232: where a received datagram goes, and whether JSON
\* decoding was attempted on it
classify(d) ==
    IF from_utf8(d) = None THEN [to |-> "check", json_tried |-> FALSE]
    ELSE IF from_utf8(d) = Some("test") THEN [to |-> "check", json_tried |-> FALSE]
    ELSE IF from_str(d) = None THEN [to |-> "check", json_tried |-> TRUE]
    ELSE IF ~d.v4 THEN [to |-> "check", json_tried |-> TRUE]
    ELSE IF msg_method(d.msg) = "syncPilot" /\ push_mac(d.msg) # None
         THEN [to |-> "sync", json_tried |-> TRUE]
    ELSE IF msg_method(d.msg) = "firstBeat" /\ push_mac(d.msg) # None
         THEN [to |-> "first", json_tried |-> TRUE]
    ELSE [to |-> "check", json_tried |-> TRUE]

\* HashMap::get on the registry: the entry stored under the key, if any
lookup(subs, key) ==
    IF \E p \in subs : p[1] = key
    THEN Some(CHOOSE p \in subs : p[1] = key)
    ELSE None

\* insert that adds the entry next to the one already stored under the key
insert_add(subs, key, cb) == subs \cup {<<key, cb>>}
\* remove that empties the map
remove_all(subs, key) == {}
\* remove that leaves the entry in the map
remove_none(subs, key) == subs

\* HashMap::insert / HashMap::remove on the registry
insert(subs, key, cb) == {p \in subs : p[1] # key} \cup {<<key, cb>>}
remove(subs, key) == {p \in subs : p[1] # key}

\* a caller outside any call, and a loop not yet spawned
IdleCaller ==
    [pc |-> "idle", op |-> Absent, ip |-> Absent, handle |-> 0, msg |-> None,
     result |-> None]
NoCur ==
    [d |-> None, json_tried |-> FALSE, err_before |-> None,
     exp_lookup |-> Absent, fresh_unsub |-> FALSE, calls |-> <<>>, n |-> 0]
Unspawned == [pc |-> "unspawned", mac_addr |-> None, cb |-> None, cur |-> NoCur]

\* Light::new (light.rs lines 64-71), PushManager::new (push.rs lines
\* 82-92) and discover_bulbs not yet called
Init ==
    /\ sc_pc = "idle"
    /\ sc_msg = None
    /\ attempt = 0
    /\ last_error = None
    /\ sc_result = None
    /\ sock = 0
    /\ history = MessageHistory_new
    /\ sc_calls = 0
    /\ sc_trace = <<>>
    /\ sock_id = None
    /\ requests = {}
    /\ sc_rcvd = None
    /\ status = None
    /\ set_call = None
    /\ mh = None
    /\ mh_log = <<>>
    /\ running = FALSE
    /\ subscriptions = {}
    /\ subs_lock = 0
    /\ discovery_callback = None
    /\ disc_lock = 0
    /\ listener_task = None
    /\ task_lock = 0
    /\ last_push = None
    /\ pm_last_error = None
    /\ register_msg = None
    /\ dropped = FALSE
    /\ port = None
    /\ callers = [c \in Callers |-> IdleCaller]
    /\ loops = [l \in LoopIds |-> Unspawned]
    /\ nloops = 0
    /\ napi = 0
    /\ diag = None
    /\ nrecv = 0
    /\ ds_pc = "idle"
    /\ ds_timeout = 0
    /\ ds_elapsed = 0
    /\ discovered = <<>>
    /\ ds_probe = None
    /\ ds_replies = <<>>
    /\ ds_result = None
    /\ ds_sends = 0
    /\ ds_errors = 0
    /\ ds_wait = [at |-> 0, dur |-> 0, out |-> "none"]
    /\ lights = None
    /\ next_uuid = 0
    /\ room_result = None
    /\ expected = [k \in Keys |-> "never"]
    /\ sent = <<>>


\* ----- the API calls that are one critical section

\* the key the datagram's sender is known by: its params.mac in uppercase
\* (observation only)
sender_key(d) ==
    IF d.body = "json" /\ d.msg.params # None /\ d.msg.params[1].mac # None
    THEN Some(to_uppercase(d.msg.params[1].mac[1]))
    ELSE None

ApiOpen == ~dropped /\ napi < MaxApiCalls

\* the task that makes the next call: tasks are interchangeable, so it is the
\* first one that is outside any call
NextCaller(c) ==
    /\ callers[c].pc = "idle"
    /\ \A b \in Callers : b < c => callers[b].pc # "idle"

\* registry_key without the normalisation to uppercase
registry_key_raw(mac) == mac

\* lines 125 and 130: mac.to_uppercase()
registry_key(mac) == to_uppercase(mac)

\* unsubscribe_key that leaves the identifier as given
unsubscribe_key_raw(mac) == mac

\* line 130: &mac.to_uppercase()
unsubscribe_key(mac) == to_uppercase(mac)

\* PushManager::subscribe (lines 117-126)
subscribe(mac, callback) ==
    /\ ApiOpen
    /\ subs_lock = 0
    /\ napi' = napi + 1
    /\ subscriptions' = insert(subscriptions, registry_key(mac), callback)
    /\ expected' = [expected EXCEPT ![to_uppercase(mac)] = callback]
    /\ loops' = [l \in LoopIds |->
                    IF loops[l].cur.d # None
                       /\ sender_key(loops[l].cur.d[1]) = Some(to_uppercase(mac))
                    THEN [loops[l] EXCEPT !.cur.fresh_unsub = FALSE]
                    ELSE loops[l]]
    /\ UNCHANGED <<running, subs_lock, discovery_callback, disc_lock,
                   listener_task, task_lock, last_push, pm_last_error,
                   register_msg, dropped, port, callers, nloops, diag, nrecv,
                   sent>>
    /\ UNCHANGED <<cmdVars, discVars>>

\* PushManager::unsubscribe (lines 129-131)
unsubscribe(mac) ==
    /\ ApiOpen
    /\ subs_lock = 0
    /\ napi' = napi + 1
    /\ subscriptions' = remove(subscriptions, unsubscribe_key(mac))
    /\ expected' = [expected EXCEPT ![to_uppercase(mac)] =
                        IF @ = "never" THEN "never" ELSE "unsub"]
    /\ UNCHANGED <<running, subs_lock, discovery_callback, disc_lock,
                   listener_task, task_lock, last_push, pm_last_error,
                   register_msg, dropped, port, callers, loops, nloops, diag, nrecv,
                   sent>>
    /\ UNCHANGED <<cmdVars, discVars>>

\* PushManager::set_discovery_callback (lines 137-142)
set_discovery_callback(callback) ==
    /\ ApiOpen
    /\ disc_lock = 0
    /\ napi' = napi + 1
    /\ discovery_callback' = Some(callback)
    /\ UNCHANGED <<running, subscriptions, subs_lock, disc_lock, listener_task,
                   task_lock, last_push, pm_last_error, register_msg, dropped,
                   port, callers, loops, nloops, diag, nrecv, expected, sent>>
    /\ UNCHANGED <<cmdVars, discVars>>

\* ----- the API calls that span several steps: start, stop, diagnostics

\* what is left alone by a step that only moves a caller
CallerFrame ==
    /\ UNCHANGED <<subscriptions, subs_lock, discovery_callback, disc_lock,
                   last_push, pm_last_error, dropped, loops, diag, nrecv,
                   expected, sent>>
    /\ UNCHANGED <<cmdVars, discVars>>

\* is_running that asks whether a loop handle is stored
is_running_by_handle == listener_task # None

\* PushManager::is_running (lines 95-97)
is_running == running

\* PushManager::start, lines 151-153: the no-op check
start_begin(c, local_ip) ==
    /\ ApiOpen
    /\ NextCaller(c)
    /\ napi' = napi + 1
    /\ callers' = [callers EXCEPT ![c] =
            IF is_running
            THEN [IdleCaller EXCEPT !.pc = "done", !.op = "start",
                                    !.ip = local_ip,
                                    !.result = Some(Ok("unit"))]
            ELSE [IdleCaller EXCEPT !.pc = "start_bind", !.op = "start",
                                    !.ip = local_ip]]
    /\ UNCHANGED <<running, listener_task, task_lock, register_msg, port, nloops>>
    /\ CallerFrame

\* can_bind that lets a second socket share the port
can_bind_shared(owner) == TRUE

\* UdpSocket::bind succeeds only on a port no other socket is bound to
can_bind(owner) == owner = None

\* start_bind that sets the flag before it binds
start_bind_flag_first(c) ==
    /\ callers[c].pc = "start_bind"
    /\ running' = TRUE
    /\ IF can_bind(port)
       THEN /\ port' = Some(<<"start", c>>)
            /\ callers' = [callers EXCEPT ![c].pc = "start_register_msg"]
       ELSE /\ port' = port
            /\ callers' = [callers EXCEPT ![c] =
                   [IdleCaller EXCEPT
                      !.pc = "done", !.op = "start", !.ip = callers[c].ip,
                      !.result = Some(Err(SocketError("bind push socket",
                                                      "AddrInUse")))]]
    /\ UNCHANGED <<listener_task, task_lock, register_msg, nloops, napi>>
    /\ CallerFrame

\* start, lines 155-157: bind the listen port, or return the socket error
start_bind(c) ==
    /\ callers[c].pc = "start_bind"
    /\ IF can_bind(port)
       THEN /\ port' = Some(<<"start", c>>)
            /\ callers' = [callers EXCEPT ![c].pc = "start_register_msg"]
       ELSE /\ port' = port
            /\ callers' = [callers EXCEPT ![c] =
                   [IdleCaller EXCEPT
                      !.pc = "done", !.op = "start", !.ip = callers[c].ip,
                      !.result = Some(Err(SocketError("bind push socket",
                                                      "AddrInUse")))]]
    /\ UNCHANGED <<running, listener_task, task_lock, register_msg, nloops, napi>>
    /\ CallerFrame

\* format!("{:02X}") of a byte
HexDigits ==
    <<"0", "1", "2", "3", "4", "5", "6", "7", "8", "9", "A", "B", "C", "D", "E", "F">>
hex2(b) == <<HexDigits[(b \div 16) + 1], HexDigits[(b % 16) + 1]>>

\* generate_mac (lines 308-322): (seed >> 40) & 0xFF down to seed & 0xFF,
\* the six low bytes of the clock from the highest, each as two hex digits
generate_mac(seed) ==
    hex2(seed[6]) \o hex2(seed[5]) \o hex2(seed[4])
        \o hex2(seed[3]) \o hex2(seed[2]) \o hex2(seed[1])

\* start, lines 159-166: build and store the registration message
start_register_msg(c, seed) ==
    /\ callers[c].pc = "start_register_msg"
    /\ register_msg' = Some([method |-> "registration",
                             params |-> [phoneIp |-> callers[c].ip,
                                         register |-> TRUE,
                                         phoneMac |-> generate_mac(seed)]])
    /\ callers' = [callers EXCEPT ![c].pc = "start_set_running"]
    /\ UNCHANGED <<running, listener_task, task_lock, port, nloops, napi>>
    /\ CallerFrame

\* start, line 168: running.store(true)
start_set_running(c) ==
    /\ callers[c].pc = "start_set_running"
    /\ running' = TRUE
    /\ callers' = [callers EXCEPT ![c].pc = "start_spawn"]
    /\ UNCHANGED <<listener_task, task_lock, register_msg, port, nloops, napi>>
    /\ CallerFrame

\* start, lines 170-245: spawn the receive loop, which owns the socket
start_spawn(c) ==
    /\ callers[c].pc = "start_spawn"
    /\ nloops' = nloops + 1
    /\ loops' = [loops EXCEPT ![nloops'] = [Unspawned EXCEPT !.pc = "check"]]
    /\ port' = IF port = Some(<<"start", c>>) THEN Some(<<"loop", nloops'>>)
               ELSE port
    /\ callers' = [callers EXCEPT ![c].pc = "start_store", ![c].handle = nloops']
    /\ UNCHANGED <<running, subscriptions, subs_lock, discovery_callback,
                   disc_lock, listener_task, task_lock, last_push,
                   pm_last_error, register_msg, dropped, napi, diag, nrecv,
                   expected, sent>>
    /\ UNCHANGED <<cmdVars, discVars>>

\* start, lines 247-248: store the handle (a handle it replaces is dropped,
\* which detaches its task) and return Ok
start_store(c) ==
    /\ callers[c].pc = "start_store"
    /\ task_lock = 0
    /\ listener_task' = Some(callers[c].handle)
    /\ callers' = [callers EXCEPT ![c] =
            [IdleCaller EXCEPT !.pc = "done", !.op = "start",
                               !.ip = callers[c].ip,
                               !.result = Some(Ok("unit"))]]
    /\ UNCHANGED <<running, task_lock, register_msg, port, nloops, napi>>
    /\ CallerFrame

\* stop_store that toggles the flag instead of clearing it
stop_store_toggled == ~running

\* the value stop stores into the flag (line 253)
stop_store == FALSE

\* stop_begin that also forgets the subscriptions
stop_begin_clearing(c) ==
    /\ ApiOpen
    /\ NextCaller(c)
    /\ napi' = napi + 1
    /\ running' = stop_store
    /\ subscriptions' = {}
    /\ callers' = [callers EXCEPT ![c].pc = "stop_take", ![c].op = "stop"]
    /\ UNCHANGED <<listener_task, task_lock, register_msg, port, nloops>>
    /\ UNCHANGED <<subs_lock, discovery_callback, disc_lock, last_push,
                   pm_last_error, dropped, loops, diag, nrecv, expected, sent>>
    /\ UNCHANGED <<cmdVars, discVars>>

\* PushManager::stop, line 253: running.store(false)
stop_begin(c) ==
    /\ ApiOpen
    /\ NextCaller(c)
    /\ napi' = napi + 1
    /\ running' = stop_store
    /\ callers' = [callers EXCEPT ![c].pc = "stop_take", ![c].op = "stop"]
    /\ UNCHANGED <<listener_task, task_lock, register_msg, port, nloops>>
    /\ CallerFrame

\* stop, line 254: lock listener_task and take the handle; the guard lives
\* until the end of the `if let`, so it is held while the handle is awaited
stop_take(c) ==
    /\ callers[c].pc = "stop_take"
    /\ task_lock = 0
    /\ listener_task' = None
    /\ IF listener_task # None
       THEN /\ task_lock' = c
            /\ callers' = [callers EXCEPT ![c].pc = "stop_join",
                                          ![c].handle = listener_task[1]]
       ELSE /\ task_lock' = 0
            /\ callers' = [callers EXCEPT ![c] =
                   [IdleCaller EXCEPT !.pc = "done", !.op = "stop",
                                      !.result = Some(Ok("unit"))]]
    /\ UNCHANGED <<running, register_msg, port, nloops, napi>>
    /\ CallerFrame

\* stop, lines 255-257: the awaited handle completes once the loop has exited
stop_join(c) ==
    /\ callers[c].pc = "stop_join"
    /\ loops[callers[c].handle].pc = "exited"
    /\ task_lock' = 0
    /\ callers' = [callers EXCEPT ![c] =
            [IdleCaller EXCEPT !.pc = "done", !.op = "stop",
                               !.result = Some(Ok("unit"))]]
    /\ UNCHANGED <<running, listener_task, register_msg, port, nloops, napi>>
    /\ CallerFrame

\* PushManager::diagnostics (lines 100-111): the snapshot it returns
diagnostics_value ==
    [running |-> is_running,
     subscription_count |-> Cardinality(subscriptions),
     time_since_last_push |-> IF last_push = None THEN None
                              ELSE Some(nrecv - last_push[1]),
     last_error |-> pm_last_error]

\* PushManager::diagnostics: it takes the subscriptions, last_push and
\* last_error locks in turn, changes nothing and returns the snapshot
diagnostics ==
    /\ ApiOpen
    /\ subs_lock = 0
    /\ napi' = napi + 1
    /\ diag' = Some(diagnostics_value)
    /\ UNCHANGED <<running, subscriptions, subs_lock, discovery_callback,
                   disc_lock, listener_task, task_lock, last_push,
                   pm_last_error, register_msg, dropped, port, callers, loops,
                   nloops, nrecv, expected, sent>>
    /\ UNCHANGED <<cmdVars, discVars>>

\* registration_message that falls back to a message built without start
registration_message_or_default ==
    IF register_msg # None THEN register_msg
    ELSE Some([method |-> "registration",
               params |-> [phoneIp |-> "0.0.0.0", register |-> TRUE,
                           phoneMac |-> "000000000000"]])

\* PushManager::registration_message (lines 261-263)
registration_message == register_msg

\* ok_or that turns a missing value into a null payload
ok_or_null(opt, e) == IF opt = None THEN Ok("null") ELSE Ok(opt[1])

\* Option::ok_or (line 272)
ok_or(opt, e) == IF opt = None THEN Err(e) ELSE Ok(opt[1])

\* PushManager::register_bulb, lines 269-272: clone the registration
\* message, or return Error::NoAttribute when there is none
register_bulb_begin(c, bulb_ip) ==
    /\ ApiOpen
    /\ NextCaller(c)
    /\ napi' = napi + 1
    /\ LET reg_msg == ok_or(registration_message, NoAttribute)
       IN  callers' = [callers EXCEPT ![c] =
               IF reg_msg.ok
               THEN [IdleCaller EXCEPT !.pc = "reg_send", !.op = "register_bulb",
                                       !.ip = bulb_ip, !.msg = reg_msg.val]
               ELSE [IdleCaller EXCEPT !.pc = "done", !.op = "register_bulb",
                                       !.result = Some(Err(reg_msg.err[1]))]]
    /\ UNCHANGED <<running, listener_task, task_lock, register_msg, port, nloops>>
    /\ CallerFrame

\* what register_bulb returns for each way its socket calls can end
register_result(outcome) ==
    CASE outcome = "sent" -> Ok("unit")
      [] outcome = "bind failed" -> Err(SocketError("bind", "Other"))
      [] outcome = "send timeout" -> Err(SocketError("send_to", "TimedOut"))
      [] outcome = "send failed" -> Err(SocketError("send_to", "Other"))

\* the datagram register_bulb sends (line 285)
RegistrationDatagram(bulb_ip, reg_msg) ==
    [ip |-> bulb_ip, port |-> RESPOND_PORT, msg |-> reg_msg]

\* register_bulb_send that sends the datagram again when it went out
register_bulb_send_retry(c, outcome) ==
    /\ callers[c].pc = "reg_send"
    /\ sent' = IF outcome = "sent"
               THEN sent \o <<RegistrationDatagram(callers[c].ip, callers[c].msg[1]),
                              RegistrationDatagram(callers[c].ip, callers[c].msg[1])>>
               ELSE sent
    /\ callers' = [callers EXCEPT ![c] =
            [IdleCaller EXCEPT !.pc = "done", !.op = "register_bulb",
                               !.result = Some(register_result(outcome))]]
    /\ UNCHANGED <<running, subscriptions, subs_lock, discovery_callback,
                   disc_lock, listener_task, task_lock, last_push,
                   pm_last_error, register_msg, dropped, port, loops, nloops,
                   napi, diag, nrecv, expected>>
    /\ UNCHANGED <<cmdVars, discVars>>

\* register_bulb, lines 274-294: bind an ephemeral socket, encode the
\* message and send it to bulb_ip:RESPOND_PORT within two seconds
register_bulb_send(c, outcome) ==
    /\ callers[c].pc = "reg_send"
    /\ sent' = IF outcome = "sent"
               THEN Append(sent, RegistrationDatagram(callers[c].ip,
                                                      callers[c].msg[1]))
               ELSE sent
    /\ callers' = [callers EXCEPT ![c] =
            [IdleCaller EXCEPT !.pc = "done", !.op = "register_bulb",
                               !.result = Some(register_result(outcome))]]
    /\ UNCHANGED <<running, subscriptions, subs_lock, discovery_callback,
                   disc_lock, listener_task, task_lock, last_push,
                   pm_last_error, register_msg, dropped, port, loops, nloops,
                   napi, diag, nrecv, expected>>
    /\ UNCHANGED <<cmdVars, discVars>>

\* the call returns to its caller
caller_return(c) ==
    /\ callers[c].pc = "done"
    /\ callers' = [callers EXCEPT ![c] = IdleCaller]
    /\ UNCHANGED <<running, listener_task, task_lock, register_msg, port,
                   nloops, napi>>
    /\ CallerFrame

\* manager_drop that forgets to clear the flag
manager_drop_flag_kept ==
    /\ ~dropped
    /\ \A c \in Callers : callers[c].pc = "idle"
    /\ dropped' = TRUE
    /\ listener_task' = None
    /\ UNCHANGED <<running, subscriptions, subs_lock, discovery_callback,
                   disc_lock, task_lock, last_push, pm_last_error, register_msg,
                   port, callers, loops, nloops, napi, diag, nrecv, expected,
                   sent>>
    /\ UNCHANGED <<cmdVars, discVars>>

\* impl Drop for PushManager (lines 298-306): clear the flag; the fields are
\* dropped, the stored JoinHandle with them, which detaches the task.  No
\* call borrows the manager any more when it is dropped.
manager_drop ==
    /\ ~dropped
    /\ \A c \in Callers : callers[c].pc = "idle"
    /\ running' = FALSE
    /\ dropped' = TRUE
    /\ listener_task' = None
    /\ UNCHANGED <<subscriptions, subs_lock, discovery_callback, disc_lock,
                   task_lock, last_push, pm_last_error, register_msg, port,
                   callers, loops, nloops, napi, diag, nrecv, expected, sent>>
    /\ UNCHANGED <<cmdVars, discVars>>

\* ----- the receive loop (the task spawned by start, lines 176-245)

\* what is left alone by a step of a loop that touches no registry
LoopFrame ==
    /\ UNCHANGED <<running, subscriptions, discovery_callback, listener_task,
                   task_lock, register_msg, dropped, callers, nloops, napi,
                   diag, expected, sent>>
    /\ UNCHANGED <<cmdVars, discVars>>

\* socket_closed that leaves the port bound after the task has ended
socket_leaked(l) == port

\* the task ends (line 245): the socket it owns is dropped, which frees
\* the port
socket_closed(l) == IF port = Some(<<"loop", l>>) THEN None ELSE port

\* line 180: `while running.load()`; when the flag is clear the task ends
\* and its socket is closed
loop_check(l) ==
    /\ loops[l].pc = "check"
    /\ IF running
       THEN /\ loops' = [loops EXCEPT ![l] = [Unspawned EXCEPT !.pc = "recv"]]
            /\ port' = port
       ELSE /\ loops' = [loops EXCEPT ![l] = [Unspawned EXCEPT !.pc = "exited"]]
            /\ port' = socket_closed(l)
    /\ UNCHANGED <<subs_lock, disc_lock, last_push, pm_last_error, nrecv>>
    /\ LoopFrame

\* lines 240-242: the 500 ms receive timeout elapses
loop_recv_timeout(l) ==
    /\ loops[l].pc = "recv"
    /\ loops' = [loops EXCEPT ![l].pc = "check"]
    /\ UNCHANGED <<subs_lock, disc_lock, last_push, pm_last_error, port, nrecv>>
    /\ LoopFrame

\* loop_recv_error in which the error ends the task
loop_recv_error_fatal(l) ==
    /\ loops[l].pc = "recv"
    /\ pm_last_error' = Some(<<"recv_from failed">>)
    /\ loops' = [loops EXCEPT ![l].pc = "exited"]
    /\ UNCHANGED <<subs_lock, disc_lock, last_push, port, nrecv>>
    /\ LoopFrame

\* lines 236-239: recv_from fails; the error text becomes last_error
loop_recv_error(l) ==
    /\ loops[l].pc = "recv"
    /\ pm_last_error' = Some(<<"recv_from failed">>)
    /\ loops' = [loops EXCEPT ![l].pc = "check"]
    /\ UNCHANGED <<subs_lock, disc_lock, last_push, port, nrecv>>
    /\ LoopFrame

\* dispatch_pc that treats a first beat as a state update
dispatch_pc_first_as_sync(to) ==
    CASE to = "sync" -> "sync_lookup"
      [] to = "first" -> "sync_lookup"
      [] OTHER -> "check"

\* where the loop goes with a classified datagram
dispatch_pc(to) ==
    CASE to = "sync" -> "sync_lookup"
      [] to = "first" -> "disc_lookup"
      [] OTHER -> "check"

\* loop_recv_datagram that does not wait for the callback to return
loop_recv_datagram_eager(l, d) ==
    /\ loops[l].pc \in {"recv", "state_cb", "disc_cb"}
    /\ nrecv < MaxDatagrams
    /\ nrecv' = nrecv + 1
    /\ last_push' = Some(nrecv')
    /\ loops' = [loops EXCEPT ![l] =
            [pc |-> dispatch_pc(classify(d).to),
             mac_addr |-> IF classify(d).to \in {"sync", "first"}
                          THEN push_mac(d.msg) ELSE None,
             cb |-> None,
             cur |-> [d |-> Some(d),
                      json_tried |-> classify(d).json_tried,
                      err_before |-> pm_last_error,
                      exp_lookup |-> Absent,
                      fresh_unsub |-> /\ sender_key(d) # None
                                      /\ expected[sender_key(d)[1]] = "unsub",
                      calls |-> <<>>,
                      n |-> nrecv']]]
    /\ UNCHANGED <<subs_lock, disc_lock, pm_last_error, port>>
    /\ LoopFrame

\* lines 182-207: a datagram arrives; last_push is set, then the datagram
\* is decoded and classified
loop_recv_datagram(l, d) ==
    /\ loops[l].pc = "recv"
    /\ nrecv < MaxDatagrams
    /\ nrecv' = nrecv + 1
    /\ last_push' = Some(nrecv')
    /\ loops' = [loops EXCEPT ![l] =
            [pc |-> dispatch_pc(classify(d).to),
             mac_addr |-> IF classify(d).to \in {"sync", "first"}
                          THEN push_mac(d.msg) ELSE None,
             cb |-> None,
             cur |-> [d |-> Some(d),
                      json_tried |-> classify(d).json_tried,
                      err_before |-> pm_last_error,
                      exp_lookup |-> Absent,
                      fresh_unsub |-> /\ sender_key(d) # None
                                      /\ expected[sender_key(d)[1]] = "unsub",
                      calls |-> <<>>,
                      n |-> nrecv']]]
    /\ UNCHANGED <<subs_lock, disc_lock, pm_last_error, port>>
    /\ LoopFrame

\* lock_after_lookup without the drop(subs) / drop(disc_cb) before the call
lock_kept(l) == l

\* lines 216 and 228: the guard is dropped before the callback is called
lock_after_lookup(l) == 0

\* the callback a syncPilot datagram selects: any subscriber at all
select_any(subs, key) ==
    IF subs = {} THEN None ELSE Some(CHOOSE p \in subs : p[1] # key \/ Cardinality(subs) = 1)

\* line 210: subs.get(mac_addr)
select_subscriber(subs, key) == lookup(subs, key)

\* lines 208-219: the syncPilot arm.  Under the registry lock the subscriber
\* of mac_addr is looked up; when there is one its handle is cloned, the
\* lock is released and the callback is called with (mac_addr, params);
\* when there is none the guard is dropped at the end of the arm
loop_sync_lookup(l) ==
    /\ loops[l].pc = "sync_lookup"
    /\ subs_lock = 0
    /\ LET me == loops[l]
           d == me.cur.d[1]
           found == select_subscriber(subscriptions, me.mac_addr[1])
           seen == [me EXCEPT !.cur.exp_lookup = expected[sender_key(d)[1]]]
       IN  IF found # None
           THEN /\ subs_lock' = lock_after_lookup(l)
                /\ loops' = [loops EXCEPT ![l] =
                       [seen EXCEPT
                          !.pc = "state_cb",
                          !.cb = Some(found[1][2]),
                          !.cur.calls = Append(@,
                              [kind |-> "state", key |-> found[1][1],
                               cb |-> found[1][2], mac |-> me.mac_addr[1],
                               arg |-> msg_params(d.msg)])]]
           ELSE /\ subs_lock' = 0
                /\ loops' = [loops EXCEPT ![l] = [seen EXCEPT !.pc = "check"]]
    /\ UNCHANGED <<disc_lock, last_push, pm_last_error, port, nrecv>>
    /\ LoopFrame

\* loop_state_cb_return that goes on to the next receive without reading
\* the flag
loop_state_cb_return_rewait(l) ==
    /\ loops[l].pc = "state_cb"
    /\ subs_lock' = IF subs_lock = l THEN 0 ELSE subs_lock
    /\ loops' = [loops EXCEPT ![l] = [Unspawned EXCEPT !.pc = "recv"]]
    /\ UNCHANGED <<disc_lock, last_push, pm_last_error, port, nrecv>>
    /\ LoopFrame

\* line 217: the state callback returns; the arm ends, and with it every
\* guard still in scope
loop_state_cb_return(l) ==
    /\ loops[l].pc = "state_cb"
    /\ subs_lock' = IF subs_lock = l THEN 0 ELSE subs_lock
    /\ loops' = [loops EXCEPT ![l].pc = "check"]
    /\ UNCHANGED <<disc_lock, last_push, pm_last_error, port, nrecv>>
    /\ LoopFrame

\* lines 220-231: the firstBeat arm, with the discovery callback
loop_disc_lookup(l) ==
    /\ loops[l].pc = "disc_lookup"
    /\ disc_lock = 0
    /\ LET me == loops[l]
           d == me.cur.d[1]
       IN  IF discovery_callback # None
           THEN /\ disc_lock' = lock_after_lookup(l)
                /\ loops' = [loops EXCEPT ![l] =
                       [me EXCEPT
                          !.pc = "disc_cb",
                          !.cb = discovery_callback,
                          !.cur.calls = Append(@,
                              [kind |-> "discovery", key |-> <<>>,
                               cb |-> discovery_callback[1],
                               mac |-> me.mac_addr[1],
                               arg |-> [ip |-> SourceIp, mac |-> me.mac_addr[1]]])]]
           ELSE /\ disc_lock' = 0
                /\ loops' = [loops EXCEPT ![l].pc = "check"]
    /\ UNCHANGED <<subs_lock, last_push, pm_last_error, port, nrecv>>
    /\ LoopFrame

\* line 229: the discovery callback returns
loop_disc_cb_return(l) ==
    /\ loops[l].pc = "disc_cb"
    /\ disc_lock' = IF disc_lock = l THEN 0 ELSE disc_lock
    /\ loops' = [loops EXCEPT ![l].pc = "check"]
    /\ UNCHANGED <<subs_lock, last_push, pm_last_error, port, nrecv>>
    /\ LoopFrame

\* the budget of calls of a behaviour in which calls race
Racing == napi < MaxRacingCalls

\* the manager used by tasks that call it concurrently
NextPush ==
    \/ \E m \in Idents, f \in StateCallbacks : Racing /\ subscribe(m, f)
    \/ \E m \in Idents : Racing /\ unsubscribe(m)
    \/ \E f \in DiscoveryCallbacks : Racing /\ set_discovery_callback(f)
    \/ \E c \in Callers, ip \in LocalIps : Racing /\ start_begin(c, ip)
    \/ \E c \in Callers : start_bind(c)
    \/ \E c \in Callers, seed \in ClockReadings : start_register_msg(c, seed)
    \/ \E c \in Callers : start_set_running(c)
    \/ \E c \in Callers : start_spawn(c)
    \/ \E c \in Callers : start_store(c)
    \/ \E c \in Callers : Racing /\ stop_begin(c)
    \/ \E c \in Callers : stop_take(c)
    \/ \E c \in Callers : stop_join(c)
    \/ Racing /\ diagnostics
    \/ \E c \in Callers, ip \in BulbIps : Racing /\ register_bulb_begin(c, ip)
    \/ \E c \in Callers, o \in SendOutcomes : register_bulb_send(c, o)
    \/ \E c \in Callers : caller_return(c)
    \/ manager_drop
    \/ \E l \in LoopIds : loop_check(l)
    \/ \E l \in LoopIds : loop_recv_timeout(l)
    \/ \E l \in LoopIds : loop_recv_error(l)
    \/ \E l \in LoopIds, d \in Datagrams :
          nrecv < MaxRacingDatagrams /\ loop_recv_datagram(l, d)
    \/ \E l \in LoopIds : loop_sync_lookup(l)
    \/ \E l \in LoopIds : loop_state_cb_return(l)
    \/ \E l \in LoopIds : loop_disc_lookup(l)
    \/ \E l \in LoopIds : loop_disc_cb_return(l)

\* ------------------------------------------------------- discovery scanner
\* bounds of the discovery model
\* datagrams one discover_bulbs call receives
MaxReplies == 3
\* the longest discovery_timeout, in clock ticks of 250 ms
MaxTimeout == 3
\* receive errors one discover_bulbs call meets
MaxRecvErrors == 2

\* recv_timeout (line 89): 500 ms, in clock ticks
RECV_TIMEOUT == 2

\* source addresses of the replies
ReplyIps == {"192.168.1.7", "192.168.1.8"}
ReplyPorts == {38899, 40000}

\* a received datagram: its bytes and the socket address it came from
Reply(body, msg, v4, ip, src_port) ==
    [body |-> body, msg |-> msg, v4 |-> v4, ip |-> ip, port |-> src_port]

\* the JSON body of a reply: `result` and `result.mac` may be missing (or
\* mac not a string)
ReplyMsg(mac) == [result |-> Some([mac |-> mac])]
NoResult == [result |-> None]

\* the datagrams the scanner may receive: replies of bulbs "ab" (from two
\* addresses and two ports), "AB" and "cd", a reply from an IPv6 source,
\* replies without result or result.mac, and noise
Replies ==
    {Reply("json", ReplyMsg(Some(<<"a", "b">>)), TRUE, ip, pt) :
        ip \in ReplyIps, pt \in ReplyPorts}
    \cup {Reply("json", ReplyMsg(Some(m)), TRUE, "192.168.1.7", 38899) :
            m \in {<<"A", "B">>, <<"c", "d">>}}
    \cup {Reply("json", ReplyMsg(Some(<<"a", "b">>)), FALSE, "fe80::1", 38899)}
    \cup {Reply("json", m, TRUE, "192.168.1.8", 38899) :
            m \in {NoResult, ReplyMsg(None)}}
    \cup {Reply(b, NoResult, TRUE, "192.168.1.8", 38899) : b \in {"nonutf8", "junk"}}

\* the probe of lines 70-78 and its destination (line 82)
DiscoveryProbe ==
    [to |-> <<"255.255.255.255", 38899>>,
     msg |-> [method |-> "registration",
              params |-> [phoneMac |-> "AAAAAAAAAAAA", register |-> FALSE,
                          phoneIp |-> "1.2.3.4", id |-> "1"]]]

\* extract_mac (lines 114-119): result.mac when it is a string, copied as
\* it is
extract_mac(json) ==
    IF json.result = None \/ json.result[1].mac = None THEN None
    ELSE Some(json.result[1].mac[1])

\* DiscoveredBulb (lines 17-22)
DiscoveredBulb(ip, mac) == [ip |-> ip, mac |-> mac]

\* map_insert that adds the entry without looking for the key
map_insert_append(map, key, value) == Append(map, <<key, value>>)

\* HashMap::insert (line 103): the value under an existing key is replaced
map_insert(map, key, value) ==
    IF \E i \in DOMAIN map : map[i][1] = key
    THEN [i \in DOMAIN map |-> IF map[i][1] = key THEN <<key, value>> ELSE map[i]]
    ELSE Append(map, <<key, value>>)

\* accept that does not look at the address family of the source
accept_any_family(map, r) ==
    IF from_utf8(r) = None THEN map
    ELSE IF from_str(r) = None THEN map
    ELSE IF extract_mac(r.msg) = None THEN map
    ELSE map_insert(map, extract_mac(r.msg)[1],
                    DiscoveredBulb(r.ip, extract_mac(r.msg)[1]))

\* lines 95-104: what a received datagram does to `discovered`
accept(map, r) ==
    IF from_utf8(r) = None THEN map
    ELSE IF from_str(r) = None THEN map
    ELSE IF extract_mac(r.msg) = None THEN map
    ELSE IF ~r.v4 THEN map
    ELSE map_insert(map, extract_mac(r.msg)[1],
                    DiscoveredBulb(r.ip, extract_mac(r.msg)[1]))

\* the orders in which HashMap::into_values may yield n values
Orders(n) ==
    {f \in [1 .. n -> 1 .. n] : \A i, j \in 1 .. n : f[i] = f[j] => i = j}

\* into_values_err that reports an empty map as an error
into_values_nonempty(map, order) ==
    IF map = <<>> THEN Err(NoAttribute)
    ELSE Ok([i \in DOMAIN map |-> map[order[i]][2]])

\* line 111: Ok(discovered.into_values().collect())
into_values(map, order) == Ok([i \in DOMAIN map |-> map[order[i]][2]])

DiscFrame == UNCHANGED <<cmdVars, pushVars, roomVars>>

\* discover_bulbs is called (line 61)
discover_begin(timeout) ==
    /\ ds_pc = "idle"
    /\ ds_pc' = "bind"
    /\ ds_timeout' = timeout
    /\ UNCHANGED <<ds_elapsed, discovered, ds_probe, ds_replies, ds_result,
                   ds_sends, ds_errors, ds_wait>>
    /\ DiscFrame

\* a socket call of lines 62-84 fails: the call returns the socket error
discover_fail(at, action) ==
    /\ ds_pc = at
    /\ ds_pc' = "returned"
    /\ ds_result' = Some(Err(SocketError(action, "Other")))
    /\ UNCHANGED <<ds_timeout, ds_elapsed, discovered, ds_probe, ds_replies,
                   ds_sends, ds_errors, ds_wait>>
    /\ DiscFrame

\* lines 62-64 and 66-68: bind and set_broadcast succeed
discover_bind ==
    /\ ds_pc = "bind"
    /\ ds_pc' = "set_broadcast"
    /\ UNCHANGED <<ds_timeout, ds_elapsed, discovered, ds_probe, ds_replies,
                   ds_result, ds_sends, ds_errors, ds_wait>>
    /\ DiscFrame

discover_set_broadcast ==
    /\ ds_pc = "set_broadcast"
    /\ ds_pc' = "send"
    /\ UNCHANGED <<ds_timeout, ds_elapsed, discovered, ds_probe, ds_replies,
                   ds_result, ds_sends, ds_errors, ds_wait>>
    /\ DiscFrame

\* lines 70-89: the probe is sent; the map is empty and the clock starts
discover_send ==
    /\ ds_pc = "send"
    /\ ds_pc' = "loop"
    /\ ds_probe' = Some(DiscoveryProbe)
    /\ discovered' = <<>>
    /\ ds_elapsed' = 0
    /\ ds_sends' = ds_sends + 1
    /\ UNCHANGED <<ds_timeout, ds_replies, ds_result, ds_errors, ds_wait>>
    /\ DiscFrame

\* a receive wait of line 93: it started at `at`, lasted `dur` and ended
\* with a datagram, the timeout or a receive error
Wait(at, dur, out) == [at |-> at, dur |-> dur, out |-> out]

\* lines 91-105: within the overall timeout a receive wait is started and a
\* datagram arrives dt ticks later, before the receive timeout is over
discover_recv(r, dt) ==
    /\ ds_pc = "loop"
    /\ ds_elapsed < ds_timeout
    /\ Len(ds_replies) < MaxReplies
    /\ ds_replies' = Append(ds_replies, r)
    /\ discovered' = accept(discovered, r)
    /\ ds_elapsed' = ds_elapsed + dt
    /\ ds_wait' = Wait(ds_elapsed, dt, "datagram")
    /\ UNCHANGED <<ds_pc, ds_timeout, ds_probe, ds_result, ds_sends, ds_errors>>
    /\ DiscFrame

\* a timeout arm that broadcasts the probe again
discover_recv_timeout_resend ==
    /\ ds_pc = "loop"
    /\ ds_elapsed < ds_timeout
    /\ ds_elapsed' = ds_elapsed + RECV_TIMEOUT
    /\ ds_wait' = Wait(ds_elapsed, RECV_TIMEOUT, "timeout")
    /\ ds_sends' = ds_sends + 1
    /\ UNCHANGED <<ds_pc, ds_timeout, discovered, ds_probe, ds_replies, ds_result,
                   ds_errors>>
    /\ DiscFrame

\* line 107, Err(_): nothing arrives within recv_timeout; the loop continues
discover_recv_timeout ==
    /\ ds_pc = "loop"
    /\ ds_elapsed < ds_timeout
    /\ ds_elapsed' = ds_elapsed + RECV_TIMEOUT
    /\ ds_wait' = Wait(ds_elapsed, RECV_TIMEOUT, "timeout")
    /\ UNCHANGED <<ds_pc, ds_timeout, discovered, ds_probe, ds_replies, ds_result,
                   ds_sends, ds_errors>>
    /\ DiscFrame

\* line 107, Ok(Err(_)): recv_from fails dt ticks into the wait; the loop
\* continues
discover_recv_error(dt) ==
    /\ ds_pc = "loop"
    /\ ds_elapsed < ds_timeout
    /\ ds_errors < MaxRecvErrors
    /\ ds_errors' = ds_errors + 1
    /\ ds_elapsed' = ds_elapsed + dt
    /\ ds_wait' = Wait(ds_elapsed, dt, "error")
    /\ UNCHANGED <<ds_pc, ds_timeout, discovered, ds_probe, ds_replies, ds_result,
                   ds_sends>>
    /\ DiscFrame

\* lines 91 and 111: the overall timeout has elapsed; the values of the map
\* are returned, in the order the map yields them
discover_return(order) ==
    /\ ds_pc = "loop"
    /\ ~(ds_elapsed < ds_timeout)
    /\ ds_pc' = "returned"
    /\ ds_result' = Some(into_values(discovered, order))
    /\ UNCHANGED <<ds_timeout, ds_elapsed, discovered, ds_probe, ds_replies,
                   ds_sends, ds_errors, ds_wait>>
    /\ DiscFrame

NextDisc ==
    \/ \E t \in 0 .. MaxTimeout : discover_begin(t)
    \/ discover_fail("bind", "bind")
    \/ discover_fail("set_broadcast", "set_broadcast")
    \/ discover_fail("send", "send_to")
    \/ discover_bind
    \/ discover_set_broadcast
    \/ discover_send
    \/ \E r \in Replies, dt \in 0 .. RECV_TIMEOUT : discover_recv(r, dt)
    \/ discover_recv_timeout
    \/ \E dt \in 0 .. RECV_TIMEOUT : discover_recv_error(dt)
    \/ \E order \in Orders(Len(discovered)) : discover_return(order)

\* -------------------------------------------------------------------- Room
\* bounds of the room model
\* identifiers Uuid::new_v4 hands out in one behaviour
MaxUuids == 3

\* the lights a caller builds with Light::new(ip, name)
NewLights == [ip : {"10.1.2.3", "10.1.2.4"}, name : {"foo", "bar"}]

\* Room::validate_light (room.rs lines 224-239): an address that a known
\* light other than exclude_id has is refused
validate_light(map, light, exclude_id) ==
    IF map = None THEN Ok("unit")
    ELSE IF \E p \in map[1] : Some(p[1]) # exclude_id /\ p[2].ip = light.ip
         THEN Err([type |-> "InvalidIP", ip |-> light.ip, reason |-> "already known"])
         ELSE Ok("unit")

\* Light::update (light.rs lines 405-416): name and address are taken over
\* from `other`; the light after the call and whether anything changed
update(self, other) ==
    [light |-> [self EXCEPT !.name = other.name, !.ip = other.ip],
     changed |-> self.name # other.name \/ self.ip # other.ip]

\* what a step of the room leaves alone
RoomFrame ==
    /\ UNCHANGED <<ds_pc, ds_timeout, ds_elapsed, discovered, ds_probe, ds_replies,
                   ds_result, ds_sends, ds_errors, ds_wait>>
    /\ UNCHANGED <<cmdVars, pushVars>>

\* Room::new_light (lines 89-102): the light is validated, then stored under
\* a new Uuid (Uuid::new_v4 is taken never to repeat an identifier)
new_light(light) ==
    /\ LET valid == validate_light(lights, light, None)
       IN  IF ~valid.ok
           THEN /\ room_result' = Some(valid)
                /\ UNCHANGED <<lights, next_uuid>>
           ELSE /\ next_uuid < MaxUuids
                /\ next_uuid' = next_uuid + 1
                /\ lights' = Some((IF lights = None THEN {} ELSE lights[1])
                                  \cup {<<next_uuid', light>>})
                /\ room_result' = Some(Ok(next_uuid'))
    /\ RoomFrame

\* Room::delete_light (lines 105-114)
delete_light(light_id) ==
    /\ IF lights = None
       THEN /\ room_result' = Some(Err([type |-> "RoomNotFound"]))
            /\ lights' = lights
       ELSE /\ lights' = Some({p \in lights[1] : p[1] # light_id})
            /\ room_result' =
                   Some(IF \E p \in lights[1] : p[1] = light_id
                        THEN Ok("unit")
                        ELSE Err([type |-> "LightNotFound", id |-> light_id]))
    /\ UNCHANGED next_uuid
    /\ RoomFrame

\* Room::update_light (lines 143-157): the light stored under id takes over
\* name and address of `light`
update_light(id, light) ==
    /\ IF lights = None
       THEN /\ room_result' = Some(Err([type |-> "NoLights"]))
            /\ lights' = lights
       ELSE IF ~\E p \in lights[1] : p[1] = id
       THEN /\ room_result' = Some(Err([type |-> "LightNotFound", id |-> id]))
            /\ lights' = lights
       ELSE LET existing == (CHOOSE p \in lights[1] : p[1] = id)[2]
            IN  /\ lights' = Some({p \in lights[1] : p[1] # id}
                                  \cup {<<id, update(existing, light).light>>})
                /\ room_result' =
                       Some(IF update(existing, light).changed
                            THEN Ok("unit")
                            ELSE Err([type |-> "NoChangeLight", id |-> id]))
    /\ UNCHANGED next_uuid
    /\ RoomFrame

\* a Room whose lights are added, updated and removed
NextRoom ==
    \/ \E light \in NewLights : new_light(light)
    \/ \E id \in 1 .. MaxUuids : delete_light(id)
    \/ \E id \in 1 .. MaxUuids, light \in NewLights : update_light(id, light)

\* no start, stop or register_bulb call is in flight
AllIdle == \A c \in Callers : callers[c].pc = "idle"

\* the manager used by a client that awaits each start, stop and
\* register_bulb call before it makes the next call
NextSeq ==
    \/ \E m \in Idents, f \in StateCallbacks : subscribe(m, f)
    \/ \E m \in Idents : unsubscribe(m)
    \/ \E f \in DiscoveryCallbacks : set_discovery_callback(f)
    \/ \E c \in Callers, ip \in LocalIps : AllIdle /\ start_begin(c, ip)
    \/ \E c \in Callers : start_bind(c)
    \/ \E c \in Callers, seed \in ClockReadings : start_register_msg(c, seed)
    \/ \E c \in Callers : start_set_running(c)
    \/ \E c \in Callers : start_spawn(c)
    \/ \E c \in Callers : start_store(c)
    \/ \E c \in Callers : AllIdle /\ stop_begin(c)
    \/ \E c \in Callers : stop_take(c)
    \/ \E c \in Callers : stop_join(c)
    \/ diagnostics
    \/ \E c \in Callers, ip \in BulbIps : AllIdle /\ register_bulb_begin(c, ip)
    \/ \E c \in Callers, o \in SendOutcomes : register_bulb_send(c, o)
    \/ \E c \in Callers : caller_return(c)
    \/ manager_drop
    \/ \E l \in LoopIds : loop_check(l)
    \/ \E l \in LoopIds : loop_recv_timeout(l)
    \/ \E l \in LoopIds : loop_recv_error(l)
    \/ \E l \in LoopIds, d \in Datagrams : loop_recv_datagram(l, d)
    \/ \E l \in LoopIds : loop_sync_lookup(l)
    \/ \E l \in LoopIds : loop_state_cb_return(l)
    \/ \E l \in LoopIds : loop_disc_lookup(l)
    \/ \E l \in LoopIds : loop_disc_cb_return(l)

\* the datagrams the loop of a manager with one subscriber ("AB") receives:
\* a state update of the subscriber and one of another bulb
StopDatagrams == {Push("syncPilot", <<"a", "b">>), Push("syncPilot", <<"c", "d">>)}

\* one subscriber, and a client that starts, stops and drops the manager,
\* awaiting each call
NextStop ==
    \/ subscribe(<<"a", "b">>, "f")
    \/ \E c \in Callers : AllIdle /\ start_begin(c, "192.168.1.100")
    \/ \E c \in Callers : start_bind(c)
    \/ \E c \in Callers :
          start_register_msg(c, <<255, 0, 18, 52, 86, 171, 1>>)
    \/ \E c \in Callers : start_set_running(c)
    \/ \E c \in Callers : start_spawn(c)
    \/ \E c \in Callers : start_store(c)
    \/ \E c \in Callers : AllIdle /\ stop_begin(c)
    \/ \E c \in Callers : stop_take(c)
    \/ \E c \in Callers : stop_join(c)
    \/ \E c \in Callers : caller_return(c)
    \/ manager_drop
    \/ \E l \in LoopIds : loop_check(l)
    \/ \E l \in LoopIds : loop_recv_timeout(l)
    \/ \E l \in LoopIds : loop_recv_error(l)
    \/ \E l \in LoopIds, d \in StopDatagrams : loop_recv_datagram(l, d)
    \/ \E l \in LoopIds : loop_sync_lookup(l)
    \/ \E l \in LoopIds : loop_state_cb_return(l)

vars == <<cmdVars, pushVars, discVars>>

SpecPush == Init /\ [][NextPush]_vars

SpecCmd == Init /\ [][NextCmd]_vars

SpecSeq == Init /\ [][NextSeq]_vars

SpecDisc == Init /\ [][NextDisc]_vars

SpecSet == Init /\ [][NextSet]_vars

SpecHist == Init /\ [][NextHist]_vars

SpecLog == Init /\ [][NextLog]_vars

SpecRoom == Init /\ [][NextRoom]_vars

\* the runtime schedules every spawned loop, a receive returns after 500 ms
\* at the latest, the locks are free again after each API call, and
\* callbacks return
LoopFairness ==
    \A l \in LoopIds :
        /\ WF_vars(loop_check(l))
        /\ WF_vars(loop_recv_timeout(l))
        /\ WF_vars(loop_sync_lookup(l))
        /\ WF_vars(loop_state_cb_return(l))
        /\ WF_vars(loop_disc_lookup(l))
        /\ WF_vars(loop_disc_cb_return(l))

SpecPushFair == Init /\ [][NextPush]_vars /\ LoopFairness

\* stop is awaited by its caller: the runtime polls it, so it takes the
\* handle when the lock is free and returns once the awaited task has ended
StopFairness ==
    \A c \in Callers : WF_vars(stop_take(c)) /\ WF_vars(stop_join(c))

SpecStopFair == Init /\ [][NextStop]_vars /\ LoopFairness /\ StopFairness

\* the discover_bulbs future is awaited by its caller: the runtime polls it
\* and fires its timers, so a call that was begun takes its next step.  A
\* clock tick holds finitely many receives (MaxReplies, MaxRecvErrors).
DiscFairness == WF_vars(ds_pc # "idle" /\ NextDisc)

SpecDiscFair == Init /\ [][NextDisc]_vars /\ DiscFairness

\* --------------------------------------------------- claims: push listener
\* the receive loops that have been spawned and have not ended
ActiveLoops == {l \in LoopIds : loops[l].pc \notin {"unspawned", "exited"}}
\* the loops that hold a datagram they have received
Holding == {l \in LoopIds : loops[l].cur.d # None}
\* the datagram loop l holds
Held(l) == loops[l].cur.d[1]
\* the loop has finished with the datagram it holds
Finished(l) == l \in Holding /\ loops[l].pc = "check"
\* the datagram is a syncPilot message with a string params.mac that came
\* from an IPv4 source
IsStateUpdate(d) ==
    /\ d.body = "json"
    /\ d.v4
    /\ d.msg.method = "syncPilot"
    /\ sender_key(d) # None
TestDatagram == Datagram("test", NoMsg, TRUE)

\* caller c is at the return of a call of the given operation
Returning(c, op) == callers[c].pc = "done" /\ callers[c].op = op
\* the step is a step of a call of the given operation by caller c
StepOf(c, op) ==
    /\ callers'[c] # callers[c]
    /\ op \in {callers[c].op, callers'[c].op}

\* C11: with start and stop calls made one after the other, when stop
\* returns it returns Ok and the flag and diagnostics().running are false;
\* and no step of a stop on a manager that is stopped or was never started
\* changes the flag, the registry, the registration message or diagnostics
C11_StopIdempotent ==
    /\ [](\A c \in Callers :
            Returning(c, "stop") =>
                /\ callers[c].result = Some(Ok("unit"))
                /\ ~running
                /\ ~diagnostics_value.running)
    /\ [][\A c \in Callers :
            (StepOf(c, "stop") /\ ~running /\ listener_task = None) =>
                /\ UNCHANGED <<running, subscriptions, register_msg>>
                /\ diagnostics_value' = diagnostics_value]_vars

\* a stop returns on a manager whose loop has already been stopped
C11_Witness ==
    \E c \in Callers :
        /\ Returning(c, "stop")
        /\ napi = 3
        /\ nloops = 1
        /\ loops[1].pc = "exited"
        /\ register_msg # None

\* C12: whenever a stop call returns, no receive loop of the manager is
\* active and the listen port is free, whatever the interleaving with
\* start and with other stop calls
C12_StopJoinsLoop ==
    \A c \in Callers :
        Returning(c, "stop") => (ActiveLoops = {} /\ port = None)

\* the manager's fields, the port and the network, as an API call may
\* change them
ManagerState ==
    <<running, subscriptions, discovery_callback, listener_task, last_push,
      pm_last_error, register_msg, port, nloops, sent>>

C14_MessageOnlyFromStart ==
    /\ registration_message = None
    /\ [][registration_message' # registration_message =>
            \E c \in Callers :
                /\ callers[c].op = "start"
                /\ callers[c].pc = "start_register_msg"
                /\ callers'[c].pc = "start_set_running"
                /\ registration_message' # None]_vars

\* every call of the budget was made, none of them a start, and there is
\* still no registration message
C14_Witness ==
    /\ registration_message = None
    /\ napi = MaxRacingCalls
    /\ AllIdle
    /\ nloops = 0
    /\ port = None
    /\ diag # None
    /\ subscriptions # {}

\* C15: a start call made while the flag is set returns Ok in one step that
\* leaves the port, the registration message, the loops and the stored
\* handle as they are
C15_StartWhileRunning ==
    [][\A c \in Callers :
        (/\ StepOf(c, "start")
         /\ callers[c].pc = "idle"
         /\ running) =>
            /\ callers'[c].pc = "done"
            /\ callers'[c].result = Some(Ok("unit"))
            /\ UNCHANGED <<ManagerState, loops>>]_vars

\* a start with another local_ip than the stored message has returned Ok
\* on a running manager
C15_Witness ==
    \E c \in Callers :
        /\ Returning(c, "start")
        /\ callers[c].result = Some(Ok("unit"))
        /\ running
        /\ register_msg # None
        /\ register_msg[1].params.phoneIp # callers[c].ip
        /\ nloops = 1
        /\ listener_task = Some(1)
        /\ ActiveLoops = {1}

\* C16: with start and stop calls made one after the other, a start that
\* finds the flag clear finds the port free, every start returns Ok with
\* the flag set, exactly one loop active and its handle stored, no step of
\* start or stop changes the registry or the discovery callback, and a
\* loop launched by a restart dispatches with the registry as it is
C16_RestartAfterStop ==
    /\ [](\A c \in Callers :
            /\ callers[c].pc = "start_bind" => can_bind(port)
            /\ Returning(c, "start") =>
                  /\ callers[c].result = Some(Ok("unit"))
                  /\ running
                  /\ Cardinality(ActiveLoops) = 1
                  /\ listener_task # None
                  /\ ActiveLoops = {listener_task[1]})
    /\ [](\A l \in Holding :
            (/\ l > 1
             /\ loops[l].pc \in {"state_cb", "check"}
             /\ IsStateUpdate(Held(l))
             /\ loops[l].cur.exp_lookup # Absent) =>
                IF loops[l].cur.exp_lookup \in StateCallbacks
                THEN /\ Len(loops[l].cur.calls) = 1
                     /\ loops[l].cur.calls[1].cb = loops[l].cur.exp_lookup
                ELSE loops[l].cur.calls = <<>>)
    /\ [][\A c \in Callers :
            (StepOf(c, "start") \/ StepOf(c, "stop")) =>
                UNCHANGED <<subscriptions, discovery_callback>>]_vars

\* a start has returned after an earlier loop was stopped and joined
C16_Witness ==
    \E c \in Callers :
        /\ Returning(c, "start")
        /\ nloops = 2
        /\ loops[1].pc = "exited"
        /\ ActiveLoops = {2}
        /\ running

\* C17: a manager with no call in flight can always be dropped, loop or no
\* loop; and once it is dropped, the flag is clear and every loop
\* eventually ends and the listen port is free
C17_DropLetsLoopExit ==
    /\ []((~dropped /\ AllIdle) => ENABLED manager_drop)
    /\ [](dropped => ~running)
    /\ dropped ~> (ActiveLoops = {} /\ port = None)

\* the manager was dropped while its loop was inside a callback
C17_Witness ==
    /\ dropped
    /\ \E l \in ActiveLoops : loops[l].pc = "state_cb"
    /\ port # None

\* C5: in every reachable state at most one receive loop of the manager is
\* active, whatever the interleaving of start, stop and drop
C5_AtMostOneLoop == Cardinality(ActiveLoops) <= 1

\* two start calls overlapped: one has spawned its loop and not yet stored
\* the handle, the other was refused the port
C5_Witness ==
    /\ Cardinality(ActiveLoops) = 1
    /\ \E c, b \in Callers :
          /\ callers[c].pc = "start_store"
          /\ callers[b].pc = "done"
          /\ callers[b].result # None
          /\ ~callers[b].result[1].ok

\* C6: every invocation of a subscription callback is for a syncPilot
\* datagram whose params.mac, in uppercase, is the key the callback is
\* registered under, and that key is the identifier passed to the callback
C6_CallbackMatchesSender ==
    \A l \in Holding :
        \A i \in DOMAIN loops[l].cur.calls :
            LET call == loops[l].cur.calls[i]
            IN  call.kind = "state" =>
                    /\ Held(l).body = "json"
                    /\ Held(l).msg.method = "syncPilot"
                    /\ sender_key(Held(l)) = Some(call.key)
                    /\ call.mac = call.key

\* a callback runs for "ab" under key "AB" while another key is subscribed
C6_Witness ==
    \E l \in LoopIds :
        /\ loops[l].pc = "state_cb"
        /\ loops[l].cur.d = Some(Push("syncPilot", <<"a", "b">>))
        /\ loops[l].cur.calls[1].key = <<"A", "B">>
        /\ \E p \in subscriptions : p[1] = <<"C", "D">>

\* C7: while a subscription or discovery callback executes, and after a
\* lookup that found no subscriber, the loop holds neither the registry
\* lock nor the discovery-callback lock, so subscribe, unsubscribe,
\* set_discovery_callback and diagnostics are never blocked by the loop
C7_NoLockAcrossCallback ==
    \A l \in LoopIds :
        loops[l].pc \in {"state_cb", "disc_cb", "check", "recv"} =>
            /\ subs_lock # l
            /\ disc_lock # l
            /\ (~dropped /\ napi < MaxApiCalls) =>
                  /\ ENABLED unsubscribe(<<"a", "b">>)
                  /\ ENABLED set_discovery_callback("d1")
                  /\ ENABLED diagnostics

C7_Witness ==
    \E l \in LoopIds :
        /\ loops[l].pc = "disc_cb"
        /\ ~dropped /\ napi < MaxApiCalls

\* C8: a syncPilot datagram with params.mac = b from an IPv4 source, looked
\* up while uppercase(b) is subscribed with cb, invokes cb exactly once, with
\* uppercase(b) and the datagram's params object
C8_SubscriberInvokedOnce ==
    \A l \in Holding :
        (/\ loops[l].pc \in {"state_cb", "check"}
         /\ IsStateUpdate(Held(l))
         /\ loops[l].cur.exp_lookup \in StateCallbacks) =>
            /\ Len(loops[l].cur.calls) = 1
            /\ loops[l].cur.calls[1].kind = "state"
            /\ loops[l].cur.calls[1].cb = loops[l].cur.exp_lookup
            /\ loops[l].cur.calls[1].mac = to_uppercase(Held(l).msg.params[1].mac[1])
            /\ loops[l].cur.calls[1].arg = Held(l).msg.params[1]

C8_Witness ==
    \E l \in LoopIds :
        /\ Finished(l)
        /\ loops[l].cur.d = Some(Push("syncPilot", <<"a", "b">>))
        /\ loops[l].cur.exp_lookup = "f"
        /\ Len(loops[l].cur.calls) = 1
        /\ loops[l].cur.calls[1].mac = <<"A", "B">>

\* C9: a syncPilot datagram received after unsubscribe(id) has taken the
\* subscription of its sender away invokes no callback, unless id is
\* subscribed again before the loop looks it up
C9_NoCallbackAfterUnsubscribe ==
    \A l \in Holding :
        (loops[l].cur.fresh_unsub /\ IsStateUpdate(Held(l))) =>
            loops[l].cur.calls = <<>>

C9_Witness ==
    \E l \in LoopIds :
        /\ Finished(l)
        /\ IsStateUpdate(Held(l))
        /\ loops[l].cur.fresh_unsub
        /\ loops[l].cur.exp_lookup = "unsub"

\* C10: a datagram whose body is the text "test" is dropped before JSON
\* decoding: no callback is invoked, last_error is left as it was, and the
\* last-push timestamp is set, so diagnostics reports time_since_last_push
C10_TestSentinelDropped ==
    \A l \in LoopIds :
        loops[l].cur.d = Some(TestDatagram) =>
            /\ loops[l].pc = "check"
            /\ ~loops[l].cur.json_tried
            /\ loops[l].cur.calls = <<>>
            /\ pm_last_error = loops[l].cur.err_before
            /\ last_push = Some(nrecv)
            /\ diagnostics_value.time_since_last_push # None

C10_Witness ==
    \E l \in LoopIds :
        /\ loops[l].cur.d = Some(TestDatagram)
        /\ last_push = Some(1)
        /\ discovery_callback # None

\* the datagram is a firstBeat message with a string params.mac that came
\* from an IPv4 source
IsFirstBeat(d) ==
    /\ d.body = "json"
    /\ d.v4
    /\ d.msg.method = "firstBeat"
    /\ sender_key(d) # None
\* the datagram fails one of the checks of the receive arm
Rejected(d) ==
    \/ d.body # "json"
    \/ ~d.v4
    \/ d.msg.method \notin {"syncPilot", "firstBeat"}
    \/ sender_key(d) = None
\* the keys the API calls made so far leave subscribed
Subscribed == {k \in Keys : expected[k] \in StateCallbacks}
\* the step is a subscribe or an unsubscribe call
RegistryCall ==
    \/ \E m \in Idents, f \in StateCallbacks : subscribe(m, f)
    \/ \E m \in Idents : unsubscribe(m)
\* loop l is looking up or running a callback
Dispatching(l) ==
    loops[l].pc \in {"sync_lookup", "disc_lookup", "state_cb", "disc_cb"}
\* where every loop is
LoopPcs == [l \in LoopIds |-> loops[l].pc]

C22_UnsubscribeRemovesOne ==
    /\ []((ApiOpen /\ subs_lock = 0) =>
            \A m \in Idents : ENABLED unsubscribe(m))
    /\ [][\A m \in Idents :
            unsubscribe(m) =>
                /\ subscriptions' =
                       {p \in subscriptions : p[1] # to_uppercase(m)}
                /\ (\A p \in subscriptions : p[1] # to_uppercase(m)) =>
                       UNCHANGED subscriptions
                /\ UNCHANGED <<discovery_callback, running, register_msg>>]_vars

\* an unsubscribe has removed the entry of AB and left the entry of CD
C22_Witness ==
    /\ expected[<<"A", "B">>] = "unsub"
    /\ subscriptions = {<<(<<"C", "D">>), "f">>}
    /\ napi = 3

C27_RegistryIndependentOfLifecycle ==
    /\ [][RegistryCall =>
            /\ UNCHANGED <<running, port, nloops, listener_task, callers,
                           register_msg>>
            /\ LoopPcs' = LoopPcs]_vars
    /\ [][subscriptions' # subscriptions => RegistryCall]_vars
    /\ [][\A l \in LoopIds :
            loop_sync_lookup(l) =>
                \A p \in subscriptions :
                    p[1] = loops[l].mac_addr[1] =>
                        /\ loops'[l].pc = "state_cb"
                        /\ loops'[l].cb = Some(p[2])]_vars

\* a subscription has outlived a stop and a start, and the second loop
\* runs its callback
C27_Witness ==
    /\ nloops = 2
    /\ loops[1].pc = "exited"
    /\ loops[2].pc = "state_cb"
    /\ loops[2].cb = Some("f")
    /\ subscriptions = {<<(<<"A", "B">>), "f">>}

\* C28: a receive error sets last_error, leaves the flag and the callers
\* alone and takes the loop back to its check; a receive timeout does the
\* same without touching last_error; a datagram received after an error is
\* dispatched as usual; and the only errors a call returns are its own
\* bind and send errors and the not-started error
C28_ReceiveErrorNotFatal ==
    /\ [][\A l \in LoopIds :
            loop_recv_error(l) =>
                /\ pm_last_error' # None
                /\ loops'[l].pc = "check"
                /\ UNCHANGED <<running, callers, subscriptions>>]_vars
    /\ [][\A l \in LoopIds :
            loop_recv_timeout(l) =>
                /\ loops'[l].pc = "check"
                /\ UNCHANGED <<pm_last_error, running, callers>>]_vars
    /\ [](\A l \in Holding :
            (/\ loops[l].cur.err_before # None
             /\ loops[l].pc \in {"state_cb", "check"}
             /\ IsStateUpdate(Held(l))
             /\ loops[l].cur.exp_lookup \in StateCallbacks) =>
                Len(loops[l].cur.calls) = 1)
    /\ [](\A c \in Callers :
            (callers[c].result # None /\ ~callers[c].result[1].ok) =>
                \/ callers[c].result[1].err[1] = NoAttribute
                \/ callers[c].result[1].err[1].action
                       \in {"bind push socket", "bind", "send_to"})

\* a state callback runs for a datagram received after a receive error,
\* with the flag still set
C28_Witness ==
    /\ running
    /\ pm_last_error # None
    /\ \E l \in LoopIds :
          /\ loops[l].pc = "state_cb"
          /\ loops[l].cur.err_before # None

\* C29: at most one callback of the manager executes at any time; no
\* datagram is read while an earlier one is being looked up or its callback
\* runs; and a callback that starts is for the datagram received last, so
\* callbacks start in the order of arrival
C29_OneDatagramAtATime ==
    /\ [](Cardinality({l \in LoopIds :
                          loops[l].pc \in {"state_cb", "disc_cb"}}) <= 1)
    /\ [][nrecv' # nrecv => \A k \in LoopIds : ~Dispatching(k)]_vars
    /\ [][\A l \in LoopIds :
            Len(loops'[l].cur.calls) > Len(loops[l].cur.calls) =>
                loops[l].cur.n = nrecv]_vars

\* the callback for the second datagram runs
C29_Witness ==
    /\ nrecv = 2
    /\ \E l \in LoopIds :
          /\ loops[l].pc = "state_cb"
          /\ loops[l].cur.n = 2

\* C30: a datagram that is not UTF-8, not JSON, of another method, without
\* a string params.mac or from a source that is not IPv4 invokes no
\* callback and leaves the registry, the discovery callback, the flag and
\* last_error unchanged; it sets the last-push timestamp, and the loop goes
\* back to its check and on to the next receive
C30_RejectedDatagramIgnored ==
    /\ [][\A l \in LoopIds, d \in Datagrams :
            (loop_recv_datagram(l, d) /\ Rejected(d)) =>
                /\ UNCHANGED <<subscriptions, discovery_callback, running,
                               pm_last_error>>
                /\ last_push' = Some(nrecv')
                /\ loops'[l].pc = "check"
                /\ loops'[l].cur.calls = <<>>]_vars
    /\ [](\A l \in Holding :
            Rejected(Held(l)) =>
                /\ loops[l].pc = "check"
                /\ loops[l].cur.calls = <<>>
                /\ ENABLED loop_check(l))

\* a syncPilot datagram of a subscribed sender that came from an IPv6
\* source has been dropped
C30_Witness ==
    /\ <<(<<"A", "B">>), "f">> \in subscriptions
    /\ discovery_callback # None
    /\ \E l \in LoopIds :
          /\ loops[l].cur.d =
                 Some(Datagram("json",
                               PushMsg("syncPilot", Some(Params(Some(<<"a", "b">>)))),
                               FALSE))
          /\ loops[l].pc = "check"

\* C34: a register_bulb call that got a message sends one datagram, to port
\* 38899 of the given address, carrying the stored registration message,
\* or none when its socket calls fail; nothing else sends; the stored
\* message is written only by a start call that passed its no-op check and
\* bound the port, with register = true and that call's local IP; and
\* no-op start, stop, subscribe, unsubscribe and register_bulb leave it as
\* it is
C34_RegisterSendsStoredMessage ==
    /\ [][\A c \in Callers :
            (callers[c].pc = "reg_send" /\ callers'[c] # callers[c]) =>
                /\ callers'[c].pc = "done"
                /\ callers[c].msg = register_msg
                /\ IF callers'[c].result[1].ok
                   THEN sent' = Append(sent, [ip |-> callers[c].ip,
                                              port |-> 38899,
                                              msg |-> register_msg[1]])
                   ELSE sent' = sent]_vars
    /\ [][sent' # sent =>
            \E c \in Callers :
                callers[c].op = "register_bulb" /\ callers[c].pc = "reg_send"]_vars
    /\ [][register_msg' # register_msg =>
            \E c \in Callers :
                /\ callers[c].op = "start"
                /\ callers[c].pc = "start_register_msg"
                /\ port = Some(<<"start", c>>)
                /\ register_msg' # None
                /\ register_msg'[1].method = "registration"
                /\ register_msg'[1].params.register = TRUE
                /\ register_msg'[1].params.phoneIp = callers[c].ip]_vars
    /\ [][(\/ RegistryCall
           \/ \E c \in Callers :
                 \/ StepOf(c, "stop")
                 \/ StepOf(c, "register_bulb")
                 \/ (StepOf(c, "start") /\ callers[c].pc = "idle"
                        /\ callers'[c].pc = "done")) =>
            register_msg' = register_msg]_vars

\* register_bulb has sent the stored message after the loop was stopped
\* and joined, as the last call of the budget
C34_Witness ==
    \E c \in Callers :
        /\ Returning(c, "register_bulb")
        /\ callers[c].result = Some(Ok("unit"))
        /\ napi = MaxApiCalls
        /\ nloops = 1
        /\ ~running
        /\ ActiveLoops = {}
        /\ Len(sent) = 1
        /\ sent[1].port = 38899
        /\ sent[1].msg = register_msg[1]
        /\ sent[1].msg.params.register = TRUE

\* C36: a start call whose bind of the listen port fails returns the
\* socket error of the bind in that step, and no step of the call has
\* changed the manager: the flag, the registration message, the loops and
\* the stored handle are as they were (false, None, none and empty when
\* no other start has got further)
C36_BindFailureChangesNothing ==
    /\ [][\A c \in Callers :
            (callers[c].pc = "start_bind" /\ callers'[c].pc = "done") =>
                /\ ~can_bind(port)
                /\ callers'[c].result =
                       Some(Err(SocketError("bind push socket", "AddrInUse")))
                /\ UNCHANGED ManagerState
                /\ UNCHANGED <<loops, dropped>>]_vars
    /\ [][\A c \in Callers :
            (callers[c].pc = "idle" /\ callers'[c].pc = "start_bind") =>
                /\ ~running
                /\ UNCHANGED ManagerState
                /\ UNCHANGED <<loops, dropped>>]_vars
    /\ [](\A c \in Callers :
            (Returning(c, "start") /\ ~callers[c].result[1].ok) =>
                callers[c].result[1].err[1].type = "Socket")

\* a start has failed to bind the port that another start had just bound:
\* the flag is still false, there is no message, no loop and no handle
C36_Witness ==
    \E c, b \in Callers :
        /\ Returning(c, "start")
        /\ callers[c].result =
               Some(Err(SocketError("bind push socket", "AddrInUse")))
        /\ callers[b].pc = "start_register_msg"
        /\ ~running
        /\ register_msg = None
        /\ nloops = 0
        /\ listener_task = None

\* how far a loop at pc is from its end when the flag stays clear: every
\* stage of an iteration is passed at most once more
Rank(pc) ==
    CASE pc = "unspawned" -> 6
      [] pc = "recv" -> 5
      [] pc \in {"sync_lookup", "disc_lookup"} -> 4
      [] pc \in {"state_cb", "disc_cb"} -> 3
      [] pc = "check" -> 2
      [] pc = "exited" -> 1

\* C35: while the flag is clear every step of a loop takes it nearer to its
\* end (the wait in progress, then at most one dispatch with at most one
\* callback, then the flag check that ends it), a receive wait is started
\* only by a flag check that read true, a datagram is received only by a
\* loop in its wait, and, the callback returning, a stop that was begun
\* returns
C35_CancellationBounded ==
    /\ [][\A l \in LoopIds :
            (~running /\ loops'[l] # loops[l]) =>
                Rank(loops'[l].pc) < Rank(loops[l].pc)]_vars
    /\ [][\A l \in LoopIds :
            (loops[l].pc # "recv" /\ loops'[l].pc = "recv") =>
                running /\ loops[l].pc = "check"]_vars
    /\ [][\A l \in LoopIds :
            loops'[l].cur.n # loops[l].cur.n =>
                \/ loops[l].pc = "recv" /\ loops'[l].pc # "recv"
                                        /\ loops'[l].cur.n = nrecv'
                                        /\ nrecv' = nrecv + 1
                \/ loops[l].pc = "check" /\ loops'[l].cur = NoCur]_vars
    /\ [](\A l \in LoopIds : Len(loops[l].cur.calls) <= 1)
    /\ \A c \in Callers :
          (callers[c].op = "stop" /\ callers[c].pc \in {"stop_take", "stop_join"})
              ~> Returning(c, "stop")

\* the flag is clear and the stop call is waiting for the loop, which is
\* inside the callback of the second datagram
C35_Witness ==
    \E c \in Callers :
        /\ ~running
        /\ callers[c].pc = "stop_join"
        /\ loops[callers[c].handle].pc = "state_cb"
        /\ loops[callers[c].handle].cur.n = 2
        /\ Len(loops[callers[c].handle].cur.calls) = 1

\* the loops that are inside a state callback looked up under key k
LateCallbacks(k) ==
    {l \in LoopIds :
        /\ loops[l].pc = "state_cb"
        /\ loops[l].cur.calls # <<>>
        /\ loops[l].cur.calls[1].key = k}

\* C37: a callback that runs while its key is unsubscribed was looked up
\* (and cloned) while the key was still bound to it, before the
\* unsubscribe call took the registry lock; there is at most one such
\* callback; the unsubscribe step starts none; and a lookup made after it
\* finds nothing and invokes nothing
C37_LateInvocationBounded ==
    /\ [](\A k \in Keys :
            expected[k] = "unsub" => Cardinality(LateCallbacks(k)) <= 1)
    /\ [](\A k \in Keys : \A l \in LateCallbacks(k) :
            /\ loops[l].cur.exp_lookup \in StateCallbacks
            /\ loops[l].cur.calls[1].cb = loops[l].cur.exp_lookup
            /\ loops[l].cb = Some(loops[l].cur.exp_lookup)
            /\ Len(loops[l].cur.calls) = 1
            /\ sender_key(Held(l)) = Some(k))
    /\ [][\A m \in Idents :
            unsubscribe(m) =>
                /\ \A k \in Keys : LateCallbacks(k)' = LateCallbacks(k)
                /\ loops' = loops
                /\ lookup(subscriptions', to_uppercase(m)) = None]_vars
    /\ [][\A l \in Holding :
            (/\ loops[l].pc = "sync_lookup"
             /\ loops'[l].pc # "sync_lookup"
             /\ expected[sender_key(Held(l))[1]] = "unsub") =>
                /\ loops'[l].pc = "check"
                /\ loops'[l].cur.calls = <<>>]_vars

\* callback f of "AB" is running for the first datagram after
\* unsubscribe has returned and emptied the registry
C37_Witness ==
    \E l \in LoopIds :
        /\ l \in LateCallbacks(<<"A", "B">>)
        /\ expected[<<"A", "B">>] = "unsub"
        /\ subscriptions = {}
        /\ subs_lock = 0
        /\ loops[l].cb = Some("f")
        /\ loops[l].cur.n = 1

\* -------------------------------------------------- claims: discovery scanner
\* the reply passes every check of the receive arm: it is JSON with a
\* string result.mac and comes from an IPv4 source
Accepted(r) ==
    /\ r.body = "json"
    /\ r.msg.result # None
    /\ r.msg.result[1].mac # None
    /\ r.v4
\* the positions of the accepted replies carrying identifier m
RepliesOf(m) ==
    {i \in DOMAIN ds_replies :
        Accepted(ds_replies[i]) /\ ds_replies[i].msg.result[1].mac[1] = m}
\* the identifiers carried by accepted replies
RepliedMacs ==
    {ds_replies[i].msg.result[1].mac[1] :
        i \in {k \in DOMAIN ds_replies : Accepted(ds_replies[k])}}
\* the last accepted reply carrying m
LastReplyOf(m) ==
    ds_replies[CHOOSE i \in RepliesOf(m) : \A j \in RepliesOf(m) : j <= i]
\* discover_bulbs has returned a collection
DiscoverReturnedOk ==
    ds_pc = "returned" /\ ds_result # None /\ ds_result[1].ok
\* the collection it returned
Found == ds_result[1].val[1]

\* C18: the collection discover_bulbs returns has exactly one entry for each
\* identifier carried by an accepted reply, no entry for any other
\* identifier, and the entry's address is the source of the last accepted
\* reply with that identifier
C18_OneEntryPerIdentifier ==
    DiscoverReturnedOk =>
        /\ \A i, j \in DOMAIN Found : Found[i].mac = Found[j].mac => i = j
        /\ \A i \in DOMAIN Found : Found[i].mac \in RepliedMacs
        /\ \A m \in RepliedMacs :
              \E i \in DOMAIN Found :
                  /\ Found[i].mac = m
                  /\ Found[i].ip = LastReplyOf(m).ip

\* two replies of "ab" from different addresses and ports gave one entry,
\* with the address of the second
C18_Witness ==
    /\ DiscoverReturnedOk
    /\ Len(ds_replies) >= 2
    /\ ds_replies[1] = Reply("json", ReplyMsg(Some(<<"a", "b">>)), TRUE,
                             "192.168.1.7", 38899)
    /\ ds_replies[2] = Reply("json", ReplyMsg(Some(<<"a", "b">>)), TRUE,
                             "192.168.1.8", 40000)
    /\ RepliedMacs = {<<"a", "b">>}
    /\ Found = <<DiscoveredBulb("192.168.1.8", <<"a", "b">>)>>

\* C19: when the probe was sent and the call returned without having
\* received a datagram, the overall timeout has elapsed and the call
\* returned Ok with an empty collection
C19_SilenceIsEmptyOk ==
    (ds_pc = "returned" /\ ds_probe # None /\ ds_replies = <<>>) =>
        /\ ~(ds_elapsed < ds_timeout)
        /\ ds_result = Some(Ok(<<>>))

C19_Witness ==
    /\ ds_pc = "returned"
    /\ ds_probe = Some(DiscoveryProbe)
    /\ ds_replies = <<>>
    /\ ds_timeout = MaxTimeout
    /\ ds_elapsed = MaxTimeout

\* C20: every identifier in the collection discover_bulbs returns is in
\* uppercase, no two entries differ only in letter case, and each
\* identifier is the key under which the push listener dispatches the
\* messages of that device
C20_IdentifiersUppercase ==
    DiscoverReturnedOk =>
        /\ \A i \in DOMAIN Found : Found[i].mac = to_uppercase(Found[i].mac)
        /\ \A i, j \in DOMAIN Found :
              to_uppercase(Found[i].mac) = to_uppercase(Found[j].mac) => i = j
        /\ \A i \in DOMAIN Found :
              push_mac(PushMsg("syncPilot", Some(Params(Some(Found[i].mac)))))
                  = Some(Found[i].mac)

\* the bulbs collected in the map, and the bulbs returned
Collected == {discovered[i][2] : i \in DOMAIN discovered}
FoundSet == {Found[i] : i \in DOMAIN Found}

\* C31: a received datagram that is not UTF-8, not JSON, has no string
\* result.mac or comes from a non-IPv4 source leaves the collected entries
\* as they are, and neither it nor a receive error ends the scan or sets a
\* result; once the probe was sent the call returns Ok with the entries
\* collected so far
C31_RejectedRepliesSkipped ==
    /\ [][\A r \in Replies :
            (ds_replies' = Append(ds_replies, r) /\ ~Accepted(r)) =>
                /\ discovered' = discovered
                /\ ds_pc' = "loop"
                /\ ds_result' = None]_vars
    /\ [][ds_errors' # ds_errors =>
            /\ discovered' = discovered
            /\ ds_pc' = "loop"
            /\ ds_result' = None]_vars
    /\ []((ds_pc = "returned" /\ ds_sends > 0) =>
            /\ ds_result # None
            /\ ds_result[1].ok
            /\ FoundSet = Collected)

\* the entry of "ab" survived a reply of "ab" from an IPv6 source, a reply
\* that is not UTF-8 and a receive error, and was returned
C31_Witness ==
    /\ DiscoverReturnedOk
    /\ ds_errors > 0
    /\ Len(ds_replies) = 3
    /\ ds_replies[1] = Reply("json", ReplyMsg(Some(<<"a", "b">>)), TRUE,
                             "192.168.1.7", 38899)
    /\ ds_replies[2] = Reply("json", ReplyMsg(Some(<<"a", "b">>)), FALSE,
                             "fe80::1", 38899)
    /\ ds_replies[3] = Reply("nonutf8", NoResult, TRUE, "192.168.1.8", 38899)
    /\ Found = <<DiscoveredBulb("192.168.1.7", <<"a", "b">>)>>

\* C32: a discover call sends one probe and no more; when the elapsed time
\* has reached the overall timeout the next step of the scan is the
\* return, the call returns only then, with the entries collected so far;
\* and every call that was begun returns, whatever it receives
C32_OneProbeAlwaysTerminates ==
    /\ [](ds_sends <= 1)
    /\ [](ds_pc = "loop" => ds_sends = 1)
    /\ [][(ds_pc = "loop" /\ ~(ds_elapsed < ds_timeout)) =>
            ds_pc' = "returned"]_vars
    /\ [][(ds_pc = "loop" /\ ds_pc' = "returned") =>
            /\ ~(ds_elapsed < ds_timeout)
            /\ ds_sends' = 1
            /\ ds_result' # None
            /\ ds_result'[1].ok
            /\ {ds_result'[1].val[1][i] : i \in DOMAIN ds_result'[1].val[1]}
                   = Collected]_vars
    /\ (ds_pc # "idle") ~> (ds_pc = "returned")

\* a call returned after a stream of datagrams: every receive wait of the
\* scan ended with a datagram (a wait that times out takes RECV_TIMEOUT)
C32_Witness ==
    /\ DiscoverReturnedOk
    /\ ds_sends = 1
    /\ ds_timeout = 1
    /\ ds_elapsed = 1
    /\ ds_errors = 0
    /\ Len(ds_replies) = MaxReplies
    /\ ds_wait.out = "datagram"

\* C33: no receive wait lasts longer than min(500 ms, overall timeout), and
\* no wait is started once the elapsed time has reached the overall timeout
\* (none at all with timeout 0)
C33_WaitWithinBothTimeouts ==
    /\ ds_wait.out # "none" =>
          /\ ds_wait.dur <= Min(RECV_TIMEOUT, ds_timeout)
          /\ ds_wait.at < ds_timeout
    /\ ds_timeout = 0 => ds_wait.out = "none" /\ ds_replies = <<>>

\* ------------------------------------------------ claims: command transport
\* the events of one kind of the current call, in order
Events(kind) == SelectSeq(sc_trace, LAMBDA x : x.ev = kind)
\* the delays slept by the current call, in order
Slept == [i \in 1 .. Len(Events("sleep")) |-> Events("sleep")[i].n]
\* the errors of the failed attempts of the current call, in order
Failures == [i \in 1 .. Len(Events("err")) |-> Events("err")[i].e[1]]
\* the kinds of the events of the current call, in order
Kinds == [i \in 1 .. Len(sc_trace) |-> sc_trace[i].ev]

Returned == sc_pc = "returned"
AllAttemptsFailed == Returned /\ Len(Events("ok")) = 0
ReceiveTimeout == SocketError("receive", "TimedOut")

\* C1: a call whose every attempt fails makes exactly 4 attempts, sleeps
\* 750, 1500, 3000 ms between them in that order, sleeps nothing after the
\* 4th, and returns an error, which is the receive timeout when the endpoint
\* never responds
C1_ExhaustedCall ==
    AllAttemptsFailed =>
        /\ Len(Events("attempt")) = 4
        /\ Slept = <<750, 1500, 3000>>
        /\ Kinds = <<"attempt", "err", "sleep", "attempt", "err", "sleep",
                     "attempt", "err", "sleep", "attempt", "err">>
        /\ sc_result # None /\ ~sc_result[1].ok
        /\ sc_result[1].err # None
        /\ (\A i \in 1 .. Len(Failures) : Failures[i] = ReceiveTimeout)
              => sc_result[1].err = Some(ReceiveTimeout)

C1_Witness ==
    /\ AllAttemptsFailed
    /\ \A i \in 1 .. Len(Failures) : Failures[i] = ReceiveTimeout
    /\ Len(Failures) = 4

\* C2: when attempts 1..k-1 fail and attempt k succeeds, the call returns the
\* response decoded by attempt k, has made exactly k attempts and has slept
\* exactly the first k-1 entries of 750, 1500, 3000 ms in order
C2_SuccessOnAttemptK ==
    (Returned /\ Len(Events("ok")) > 0) =>
        LET k == Len(Events("attempt"))
            ok == Events("ok")[1]
        IN  /\ k \in 1 .. 4
            /\ Len(Events("ok")) = 1
            /\ sc_trace[Len(sc_trace)] = ok
            /\ ok.n = k - 1
            /\ Len(Failures) = k - 1
            /\ sc_result = Some(Ok(ok.r[1]))
            /\ Slept = SubSeq(<<750, 1500, 3000>>, 1, k - 1)

C2_Witness ==
    /\ Returned
    /\ Len(Events("ok")) = 1
    /\ Len(Events("attempt")) = 3
    /\ Slept = <<750, 1500>>
    /\ sc_result # None /\ sc_result[1].ok

\* C3: a failed attempt of any kind consumes exactly one attempt and is
\* followed by a backoff and the next attempt while attempts remain; only
\* the failure of the 4th attempt ends the call
C3_EveryFailureRetried ==
    \A i \in DOMAIN sc_trace :
        sc_trace[i].ev = "err" =>
            /\ sc_trace[i].e[1] \in AttemptErrors
            /\ i > 1 /\ sc_trace[i - 1] = Ev("attempt", sc_trace[i].n, None, None)
            /\ sc_trace[i].n < 3 =>
                  \/ i = Len(sc_trace) /\ sc_pc = "sleep"
                  \/ /\ i + 2 <= Len(sc_trace)
                     /\ sc_trace[i + 1].ev = "sleep"
                     /\ sc_trace[i + 2] = Ev("attempt", sc_trace[i].n + 1, None, None)
            /\ sc_trace[i].n >= 3 =>
                  /\ sc_trace[i].n = 3
                  /\ i = Len(sc_trace)
                  /\ Returned
                  /\ Len(Failures) = 4

C3_Witness ==
    /\ Returned
    /\ Len(Failures) = 4
    /\ Failures[1] = JsonLoadError
    /\ Failures[2] = Utf8DecodeError
    /\ Failures[3] = SocketError("bind", "Other")
    /\ Failures[4] = SocketError("receive", "ConnectionRefused")

\* C4: when all 4 attempts fail the call returns one error, the error of the
\* 4th attempt
C4_LastErrorReturned ==
    (AllAttemptsFailed /\ Len(Failures) = 4) =>
        sc_result = Some(Err(Failures[4]))

C4_Witness ==
    /\ AllAttemptsFailed
    /\ Len(Failures) = 4
    /\ \A i \in 1 .. 3 : Failures[i] # Failures[4]
    /\ sc_result = Some(Err(Failures[4]))

\* C25: the attempts of a call come one after the other, each after the
\* failure of the one before and its backoff; the call never holds more
\* than one socket, holds none between attempts, and the socket it holds was
\* bound by the current attempt; and the response a call returns answers
\* the request sent by the attempt that returns it, on that attempt's socket
C25_AttemptsSequentialOwnSocket ==
    /\ sock <= 1
    /\ (sock = 1) <=> (sock_id # None)
    /\ sc_pc \in {"idle", "bind", "sleep", "returned"} => sock = 0
    /\ sock_id # None => sock_id = Some(<<sc_calls, attempt>>)
    /\ \A i \in DOMAIN sc_trace :
          (sc_trace[i].ev = "attempt" /\ sc_trace[i].n > 0) =>
              /\ i > 2
              /\ sc_trace[i - 1].ev = "sleep"
              /\ sc_trace[i - 2].ev = "err"
              /\ sc_trace[i - 2].n = sc_trace[i].n - 1
    /\ \A q \in requests : q.sock = q.for
    /\ (Returned /\ Len(Events("ok")) > 0) =>
          LET a == Events("ok")[1].n
          IN  sc_rcvd = Some([sock |-> <<sc_calls, a>>, for |-> <<sc_calls, a>>])

\* the second attempt returns a response after the first attempt timed out
\* with its request sent
C25_Witness ==
    /\ Returned
    /\ Len(Events("ok")) = 1
    /\ Failures = <<ReceiveTimeout>>
    /\ Cardinality(requests) = 2
    /\ sc_rcvd = Some([sock |-> <<1, 1>>, for |-> <<1, 1>>])

\* C24: Light::set with a payload that is not valid returns the
\* NoAttribute error in one step that starts no attempt, opens no socket,
\* sends nothing, records nothing in the history and leaves the cached
\* status alone
C24_EmptyPayloadRejected ==
    /\ [][\A p \in Payloads :
            (set_begin(p) /\ ~is_valid(p)) =>
                /\ set_call' = Some([payload |-> p,
                                     result |-> Some(Err(NoAttribute))])
                /\ UNCHANGED <<sc_pc, sc_calls, sc_trace, attempt, sock,
                               requests, history, status>>]_vars
    /\ [](set_call # None =>
            (~is_valid(set_call[1].payload) =>
                set_call[1].result = Some(Err(NoAttribute))))

\* a set with speed alone has failed after an earlier set was sent and its
\* reply processed
C24_Witness ==
    /\ set_call = Some([payload |-> {"speed"}, result |-> Some(Err(NoAttribute))])
    /\ status = Some({"dimming"})
    /\ Len(history.entries) = 2
    /\ sc_calls = 1

\* C23: a history made by with_max_entries(n) never stores more than n
\* entries, and what it stores are the latest entries recorded, in the
\* order they were recorded; a message without a method is not recorded
C23_HistoryBounded ==
    /\ [](mh # None =>
            LET n == mh[1].max_entries
                k == Min(n, Len(mh_log))
            IN  /\ Len(mh[1].entries) <= n
                /\ mh[1].entries = SubSeq(mh_log, Len(mh_log) - k + 1, Len(mh_log)))
    /\ [][\A t \in {"Send", "Receive", "Push"}, m \in Responses :
            (history_record(t, m) /\ m.method = Absent) => UNCHANGED mh]_vars

\* four messages were recorded in a history of two entries
C23_Witness ==
    /\ mh # None
    /\ mh[1].max_entries = 2
    /\ Len(mh_log) = 4
    /\ mh_log[1] # mh_log[3]
    /\ mh[1].entries = <<mh_log[3], mh_log[4]>>

\* the last event of the current call
LastEv == sc_trace[Len(sc_trace)]
\* the step is the end of an attempt of kind "err" or "ok"
AttemptEnds(kind) ==
    /\ Len(sc_trace') = Len(sc_trace) + 1
    /\ LastEv'.ev = kind
\* the step is a clear_history call
Cleared ==
    /\ sc_trace' = sc_trace
    /\ sc_calls' = sc_calls
    /\ history'.entries = <<>>
    /\ history'.last_error = None
\* the entry record() stores for a message
Entry(msg_type, message) ==
    [msg_type |-> msg_type, method |-> message.method, message |-> message]

\* what a send_command call does to the history apart from the response:
\* the step that enters the call, before any socket is bound, appends the
\* sent command and nothing else does; a failed attempt sets last_error to
\* its error text and appends nothing; entries change only when a call is
\* entered, an attempt succeeds or the history is cleared; last_error
\* changes only when an attempt fails or the history is cleared
HistoryOfCall ==
    /\ [][sc_calls' # sc_calls =>
            /\ sc_calls' = sc_calls + 1
            /\ sock = 0
            /\ sc_trace' = <<Ev("attempt", 0, None, None)>>
            /\ history'.entries = Append(history.entries, Entry("Send", sc_msg'[1]))
            /\ history'.last_error = history.last_error]_vars
    /\ [][AttemptEnds("err") =>
            /\ history'.last_error = Some(to_string(LastEv'.e[1]))
            /\ history'.entries = history.entries]_vars
    /\ [][history'.entries # history.entries =>
            \/ sc_calls' # sc_calls
            \/ AttemptEnds("ok")
            \/ Cleared]_vars
    /\ [][history'.last_error # history.last_error =>
            \/ AttemptEnds("err")
            \/ Cleared]_vars

\* C38 as stated: HistoryOfCall, and every attempt that succeeds appends
\* its response to the history and leaves last_error as it is
C38_ResponseAlwaysRecorded ==
    /\ HistoryOfCall
    /\ [][AttemptEnds("ok") =>
            /\ history'.entries =
                   Append(history.entries, Entry("Receive", LastEv'.r[1]))
            /\ history'.last_error = history.last_error]_vars

\* C38, amended: HistoryOfCall, and an attempt that succeeds leaves
\* last_error as it is and appends its response once when the response has
\* a string `method`, and leaves the entries as they are when it has none
C38_HistoryOfCall ==
    /\ HistoryOfCall
    /\ [][AttemptEnds("ok") =>
            /\ history'.entries =
                   IF LastEv'.r[1].method # Absent
                   THEN Append(history.entries, Entry("Receive", LastEv'.r[1]))
                   ELSE history.entries
            /\ history'.last_error = history.last_error]_vars

\* the second call has succeeded at its first attempt with a response
\* that has no method: the history holds the command and the response of
\* the first call and the command of the second, and still the error of
\* the attempt that failed in the first call
C38_Witness ==
    /\ sc_calls = 2
    /\ sc_pc = "returned"
    /\ sc_result # None
    /\ sc_result[1].ok
    /\ sc_result[1].val[1].method = Absent
    /\ Events("err") = <<>>
    /\ history.last_error = Some(to_string(ReceiveTimeout))
    /\ Len(history.entries) = 3
    /\ [i \in 1 .. 3 |-> history.entries[i].msg_type] = <<"Send", "Receive", "Send">>

\* ------------------------------------------------------------ claims: Room
\* C39: after any sequence of new_light, update_light and delete_light
\* calls, no two lights of the room have the same IP address
C39_UniqueIps ==
    lights # None =>
        \A p, q \in lights[1] : p[2].ip = q[2].ip => p[1] = q[1]

====
